---- MODULE Spec2Model ----
(***************************************************************************)
(* Model of the feed reaper of mire (src/reaper/reaper.go) together with   *)
(* the storage operations it calls (src/sqlite/sqlite.go).                 *)
(*                                                                         *)
(* Goroutines: the refresh loop (Reaper.start / refreshAllFeeds), the      *)
(* tasks it spawns (updateFeedAndSaveNewItemsToDb), the saver loop         *)
(* (startDbSaver) and web requests calling AddFeedStub / RemoveFeed /      *)
(* Fetch.  Every access to shared state is one step; statements that only  *)
(* touch goroutine-local data are folded into the neighbouring step.       *)
(*                                                                         *)
(* Time is counted in hours.  A *FeedHolder is not given an address: a     *)
(* task remembers whether the holder it was handed is still the one the    *)
(* map stores under its key ("attached") or has been unlinked from the map *)
(* by delete / replacement ("detached", with the Feed it held then, which  *)
(* nothing can change afterwards), or was nil.                             *)
(***************************************************************************)
EXTENDS Integers, Sequences, FiniteSets, Bags, TLC

VARIABLES
    now,        \* wall clock (hours)
    feeds,      \* Reaper.feeds: map url -> FeedHolder
    mutex,      \* number of tokens in the channel `mutex` (1 = unlocked)
    loop,       \* the goroutine running Reaper.start
    semaphore,  \* number of tokens in refreshAllFeeds' semaphore channel
    wg,         \* refreshAllFeeds' WaitGroup counter
    tasks,      \* bag of the goroutines spawned by refreshAllFeeds
    saver,      \* the goroutine running startDbSaver
    dbFeed,     \* table feed: url -> row
    dbPost,     \* table post
    callers,    \* web requests calling into the reaper
    callsLeft,  \* web requests still to arrive
    attempt,    \* history: url -> the latest Reconcile that got past line 158
    crashed,    \* the process died (panic in a goroutine / runtime fatal)
    handlers,   \* HTTP requests served by the handlers of site.go
    dbSubscribe, \* table subscribe
    dbPostRead, \* table post_read
    unit        \* the latest call of a function on its own: name, input, result

vars == <<now, feeds, mutex, loop, semaphore, wg, tasks, saver, dbFeed,
          dbPost, callers, callsLeft, attempt, crashed, handlers, dbSubscribe,
          dbPostRead, unit>>

\* the state the handlers of site.go work on
siteVars == <<handlers, dbSubscribe, dbPostRead, unit>>

----------------------------------------------------------------------------
\* Program constants

timeToBecomeStale == 3
SleepInterval == 1
SemaphoreCap == 5
MutexCap == 1
ZeroTime == 0

----------------------------------------------------------------------------
\* Bounds of the model

MaxHours == 4
MaxCalls == 2
NumLimiterFeeds == 6
MaxLen == 4

\* the clock at startup, late enough for the zero time to be stale
BootTime == ZeroTime + timeToBecomeStale + 1
MaxTime == BootTime + MaxHours

WebURLs == {"u1", "u2"}
LimiterURLs == {"f1", "f2", "f3", "f4", "f5", "f6", "f7", "f8"}
FeedNumber(url) == CHOOSE n \in 1..10 :
    <<"u1", "u2", "f1", "f2", "f3", "f4", "f5", "f6", "f7", "f8">>[n] = url
AllURLs == WebURLs \cup LimiterURLs
CallerIds == {1}

NoCrash == "running"
NilDeref == "panic: nil pointer dereference"
MapRace == "fatal error: concurrent map read and map write"

----------------------------------------------------------------------------
\* Strings.  A string is a sequence of tokens; "sp", "nl" and "tab" are the
\* whitespace characters, "http://", "https://" and "//" are link prefixes.

Whitespace == {"sp", "nl", "tab"}

RECURSIVE DropLeadingSpace(_)
DropLeadingSpace(s) ==
    IF s # <<>> /\ Head(s) \in Whitespace THEN DropLeadingSpace(Tail(s)) ELSE s

RECURSIVE DropTrailingSpace(_)
DropTrailingSpace(s) ==
    IF s # <<>> /\ s[Len(s)] \in Whitespace
    THEN DropTrailingSpace(SubSeq(s, 1, Len(s) - 1))
    ELSE s

TrimSpace(s) == DropTrailingSpace(DropLeadingSpace(s))

\* whitespaceRegexp.ReplaceAllString(title, " ") with the regexp \s+
RECURSIVE CollapseWhitespace(_)
CollapseWhitespace(s) ==
    IF s = <<>> THEN <<>>
    ELSE IF Head(s) \in Whitespace
         THEN <<"sp">> \o CollapseWhitespace(DropLeadingSpace(Tail(s)))
         ELSE <<Head(s)>> \o CollapseWhitespace(Tail(s))

\* the prefix is looked for anywhere in the string
HasPrefixAnywhere(s, prefix) == \E i \in 1..Len(s) : s[i] = prefix

HasPrefix(s, prefix) == s # <<>> /\ Head(s) = prefix

\* A date string is <<layout it is written in, instant it denotes>>.
DateFormats ==
    <<"RFC3339", "RFC3339Nano", "RFC1123", "RFC1123Z", "RFC822", "RFC822Z",
      "RFC850", "ANSIC", "UnixDate", "RubyDate",
      "Mon Jan 2 03:04:05 PM MST 2006", "2006-01-02 15:04:05-07:00">>

TimeParse(layout, dateStr) ==
    [err |-> dateStr[1] # layout, date |-> dateStr[2]]

RECURSIVE TryFormats(_, _)
TryFormats(dateStr, i) ==
    IF i > Len(DateFormats) THEN [err |-> TRUE, date |-> ZeroTime]
    ELSE IF ~TimeParse(DateFormats[i], dateStr).err
         THEN [err |-> FALSE, date |-> TimeParse(DateFormats[i], dateStr).date]
         ELSE TryFormats(dateStr, i + 1)

TryParseDate(dateStr) == TryFormats(dateStr, 1)

----------------------------------------------------------------------------
\* Feeds.  A *time.Time is <<>> (nil) or <<t>>.

\* the link is not remembered
MarkNone(seen, link) == seen

\* line 137: seen[item.Link] = true
MarkSeen(seen, link) == seen \cup {link}

\* a parser that reads a date out of any string
ParsePublishedLenient(item) ==
    IF item.PublishedParsed = <<>> THEN <<item.Published[2]>>
    ELSE item.PublishedParsed

\* lines 124-133: the date the parser left, the one TryParseDate reads, or
\* &time.Time{}
ParsePublished(item) ==
    IF item.PublishedParsed = <<>>
    THEN IF TryParseDate(item.Published).err
         THEN <<ZeroTime>>
         ELSE <<TryParseDate(item.Published).date>>
    ELSE item.PublishedParsed

RECURSIVE SanitizeLoop(_, _, _, _)
SanitizeLoop(items, i, seen, uniqueItems) ==
    IF i > Len(items) THEN uniqueItems
    ELSE
      LET item == items[i]
          title == CollapseWhitespace(item.Title)
          link == TrimSpace(item.Link)
          parsed == ParsePublished(item)
      IN  IF ~HasPrefix(link, "http://") /\ ~HasPrefix(link, "https://")
          THEN SanitizeLoop(items, i + 1, seen, uniqueItems)
          ELSE IF link \notin seen
               THEN SanitizeLoop(items, i + 1, MarkSeen(seen, link),
                        IF link # <<>>
                        THEN Append(uniqueItems,
                                 [Title |-> title, Link |-> link,
                                  Published |-> item.Published,
                                  PublishedParsed |-> parsed])
                        ELSE uniqueItems)
               ELSE SanitizeLoop(items, i + 1, seen, uniqueItems)

\* the links are trimmed and every item is kept
sanitizeTrimOnly(feed) ==
    [feed EXCEPT !.Items =
        [i \in 1..Len(feed.Items) |->
            [feed.Items[i] EXCEPT !.Link = TrimSpace(@)]]]

sanitizeFeedItems(feed) ==
    [feed EXCEPT !.Items = SanitizeLoop(feed.Items, 1, {}, <<>>)]

\* the link the parser gave is left in the document
KeepFeedLink(feed, url) == feed

\* lines 200 and 377: the FeedLink is set back to the url asked for
SetFeedLink(feed, url) == [feed EXCEPT !.FeedLink = url]

\* &gofeed.Feed{FeedLink: url}
StubFeed(url) ==
    [FeedLink |-> url, Items |-> <<>>, Published |-> <<"", ZeroTime>>,
     PublishedParsed |-> <<>>]

Links(feed) == {feed.Items[i].Link : i \in 1..Len(feed.Items)}

\* What the remote side can answer.
RawItem(title, link, published, parsed) ==
    [Title |-> title, Link |-> link, Published |-> published,
     PublishedParsed |-> parsed, Description |-> "html"]

LinkA == <<"http://", "a">>
LinkB == <<"https://", "b">>
LinkC == <<"http://", "c">>

RawA == RawItem(<<"A", "nl", "sp", "1">>, <<"sp", "http://", "a", "nl">>,
                <<"RFC1123", 1>>, <<1>>)
RawADup == RawItem(<<"A", "again">>, LinkA, <<"RFC1123", 2>>, <<2>>)
RawB == RawItem(<<"B">>, LinkB, <<"2006-01-02 15:04:05-07:00", 2>>, <<>>)
RawC == RawItem(<<"C">>, LinkC, <<"next tuesday", 3>>, <<>>)
RawRelative == RawItem(<<"R">>, <<"//", "r">>, <<"RFC3339", 3>>, <<3>>)

RawBPadded == RawItem(<<"B", "tab", "tab", "2">>, <<"tab", "https://", "b">>,
                      <<"RFC3339", 3>>, <<>>)
RawEmpty == RawItem(<<"E">>, <<>>, <<"RFC3339", 1>>, <<1>>)
RawBlank == RawItem(<<"W">>, <<"sp", "nl">>, <<"RFC3339", 1>>, <<1>>)
RawInner == RawItem(<<"I">>, <<"x", "http://", "a">>, <<"RFC3339", 1>>, <<1>>)

RawFeedAB ==
    [FeedLink |-> "self", Items |-> <<RawA, RawB, RawADup>>,
     Published |-> <<"RFC822", 2>>, PublishedParsed |-> <<>>]
RawFeedBC ==
    [FeedLink |-> "redirect-target", Items |-> <<RawB, RawRelative, RawC>>,
     Published |-> <<"yesterday", 3>>, PublishedParsed |-> <<>>]

RawFeeds == {RawFeedAB, RawFeedBC}
FetchErrors == {"timeout"}

\* gofeed.Parser.ParseURL(url): any answer at any time
ParseURL(url) ==
    {[err |-> e, feed |-> StubFeed(url)] : e \in FetchErrors}
    \cup {[err |-> "", feed |-> IF f.FeedLink = "self"
                                THEN [f EXCEPT !.FeedLink = url] ELSE f] :
          f \in RawFeeds}

----------------------------------------------------------------------------
\* Storage (src/sqlite/sqlite.go).  Every call is one statement executed
\* under the storage lock.

GetAllFeedURLs(db) == DOMAIN db

\* the persisted time is never read back
GetFeedLastRefreshTimeZero(db, url) == ZeroTime

GetFeedLastRefreshTime(db, url) ==
    IF url \in DOMAIN db THEN db[url].last_refreshed ELSE ZeroTime

UpdateFeedLastRefreshTime(db, url, lastRefreshed) ==
    IF url \in DOMAIN db
    THEN [db EXCEPT ![url].last_refreshed = lastRefreshed]
    ELSE db

\* SetFeedFetchError with the WHERE clause of its UPDATE left out
SetFeedFetchErrorAllRows(db, url, fetchErr) ==
    [u \in DOMAIN db |-> [db[u] EXCEPT !.fetch_error = fetchErr]]

SetFeedFetchError(db, url, fetchErr) ==
    IF url \in DOMAIN db THEN [db EXCEPT ![url].fetch_error = fetchErr] ELSE db

GetFeedID(db, url) == IF url \in DOMAIN db THEN db[url].id ELSE 0

\* the insert without its ON CONFLICT clause on a table without the
\* UNIQUE(feed_id, url) constraint
SavePostAlways(db, posts, feedUrl, title, url, publishedDatetime) ==
    posts \cup {[feed_id |-> GetFeedID(db, feedUrl), title |-> title,
                 url |-> url, published_at |-> publishedDatetime]}

SavePost(db, posts, feedUrl, title, url, publishedDatetime) ==
    LET feedId == GetFeedID(db, feedUrl)
    IN  IF \E p \in posts : p.feed_id = feedId /\ p.url = url
        THEN posts
        ELSE posts \cup {[feed_id |-> feedId, title |-> title, url |-> url,
                          published_at |-> publishedDatetime]}

----------------------------------------------------------------------------
\* The registry map and its lock

HasFeed(url) == url \in DOMAIN feeds

MapInsert(m, url, holder) ==
    [u \in DOMAIN m \cup {url} |-> IF u = url THEN holder ELSE m[u]]

MapDelete(m, url) == [u \in DOMAIN m \ {url} |-> m[u]]

\* a holder that does not keep the time it is given
FeedHolderZero(feed, lastFetched) ==
    [Feed |-> feed, LastFetched |-> ZeroTime]

FeedHolder(feed, lastFetched) == [Feed |-> feed, LastFetched |-> lastFetched]

Lock == mutex > 0 /\ mutex' = mutex - 1

\* a critical section left without unlock()
UnlockForgotten == mutex' = mutex

Unlock == mutex < MutexCap /\ mutex' = mutex + 1

\* the goroutine of line 250, about to run with the holder it was handed
NewTask(key, fh) ==
    [pc |-> "start", key |-> key, fh |-> fh, fhFeed |-> StubFeed(""),
     url |-> "", prev |-> {}, fetchTime |-> ZeroTime, newF |-> StubFeed(""),
     toSend |-> <<>>, sent |-> <<>>, result |-> "", entry |-> StubFeed(""),
     errBefore |-> ""]

\* NewTask's sent, result, entry and errBefore are history: the requests the
\* task has handed to the saver, how far it got ("untracked", an error,
\* "fetched", "recreated"), the document the map held under its url at line
\* 158 and the fetch error storage held for its url then.

IdleCaller == [pc |-> "idle", op |-> "", url |-> "", feed |-> StubFeed("")]

Running == BagToSet(tasks)

Become(r, r2) == (tasks (-) SetToBag({r})) (+) SetToBag({r2})

RECURSIVE SumCopies(_, _)
SumCopies(B, S) ==
    IF S = {} THEN 0
    ELSE LET x == CHOOSE y \in S : TRUE
         IN  CopiesIn(x, B) + SumCopies(B, S \ {x})

\* The holder stored under `url` leaves the map: a task that was handed it
\* keeps it, with the Feed it has now.
Unlinked(r, url) ==
    IF r.fh = "attached" /\ r.key = url /\ url \in DOMAIN feeds
    THEN [r EXCEPT !.fh = "detached",
                   !.fhFeed = IF r.pc = "start" THEN feeds[url].Feed
                              ELSE StubFeed("")]
    ELSE r

Unlink(B, url) ==
    [y \in {Unlinked(r, url) : r \in BagToSet(B)} |->
        SumCopies(B, {r \in BagToSet(B) : Unlinked(r, url) = y})]

RECURSIVE UnlinkAll(_, _)
UnlinkAll(B, urls) ==
    IF urls = {} THEN B
    ELSE LET u == CHOOSE x \in urls : TRUE
         IN  UnlinkAll(Unlink(B, u), urls \ {u})

ScanPcs == {"range", "check", "acquire"}

\* range over a map: an entry created during the iteration may be produced
\* or skipped, also when its key was produced before it was deleted.
NoteInsert(l, url) ==
    IF l.pc \in ScanPcs /\ url \notin DOMAIN feeds
    THEN [l EXCEPT !.added = @ \cup {url}, !.visited = @ \ {url}]
    ELSE l

\* no entry is ever found stale
IsStaleNever(lastFetched, start) == FALSE

\* IsStale with an hour of grace
IsStaleAfterGrace(lastFetched, start) ==
    lastFetched + timeToBecomeStale + 1 < start

\* IsStale with After-or-equal in place of Before
IsStaleInclusive(lastFetched, start) ==
    lastFetched + timeToBecomeStale <= start

\* LastFetched.Add(timeToBecomeStale).Before(start)
IsStale(lastFetched, start) == lastFetched + timeToBecomeStale < start

----------------------------------------------------------------------------
\* Reaper.start: seeding, then refreshAllFeeds forever

InitLoop ==
    [pc |-> "getURLs", urls |-> {}, start |-> ZeroTime, visited |-> {},
     added |-> {}, key |-> "", lf |-> ZeroTime, stale |-> FALSE,
     wakeAt |-> ZeroTime]

LoopGetURLs ==
    /\ crashed = NoCrash
    /\ loop.pc = "getURLs"
    /\ loop' = [loop EXCEPT !.pc = "seedLock", !.urls = GetAllFeedURLs(dbFeed)]
    /\ UNCHANGED <<now, feeds, mutex, semaphore, wg, tasks, saver, dbFeed,
                   dbPost, callers, callsLeft, attempt, crashed>>
    /\ UNCHANGED siteVars

LoopSeedLock ==
    /\ crashed = NoCrash
    /\ loop.pc = "seedLock"
    /\ Lock
    /\ loop' = [loop EXCEPT !.pc = "seed"]
    /\ UNCHANGED <<now, feeds, semaphore, wg, tasks, saver, dbFeed, dbPost,
                   callers, callsLeft, attempt, crashed>>
    /\ UNCHANGED siteVars

LoopSeed ==
    /\ crashed = NoCrash
    /\ loop.pc = "seed"
    /\ feeds' = [u \in DOMAIN feeds \cup loop.urls |->
                    IF u \in loop.urls
                    THEN FeedHolder(StubFeed(u),
                                    GetFeedLastRefreshTime(dbFeed, u))
                    ELSE feeds[u]]
    /\ tasks' = UnlinkAll(tasks, loop.urls)
    /\ Unlock
    /\ loop' = [loop EXCEPT !.pc = "begin", !.urls = {}]
    /\ UNCHANGED <<now, semaphore, wg, saver, dbFeed, dbPost, callers,
                   callsLeft, attempt, crashed>>
    /\ UNCHANGED siteVars

\* refreshAllFeeds, lines 240-242
LoopBegin ==
    /\ crashed = NoCrash
    /\ loop.pc = "begin"
    /\ loop' = [loop EXCEPT !.pc = "range", !.start = now, !.visited = {},
                            !.added = {}, !.key = ""]
    /\ semaphore' = 0
    /\ wg' = 0
    /\ UNCHANGED <<now, feeds, mutex, tasks, saver, dbFeed, dbPost, callers,
                   callsLeft, attempt, crashed>>
    /\ UNCHANGED siteVars

\* for feedLink := range r.feeds
\* a range that may produce a key it has produced before
LoopRangeRevisit ==
    /\ crashed = NoCrash
    /\ loop.pc = "range"
    /\ \/ \E k \in DOMAIN feeds :
             loop' = [loop EXCEPT !.pc = "check", !.key = k,
                                  !.visited = @ \cup {k}, !.added = @ \ {k},
                                  !.lf = ZeroTime, !.stale = FALSE]
       \/ /\ (DOMAIN feeds \ loop.visited) \subseteq loop.added
          /\ loop' = [loop EXCEPT !.pc = "wait", !.key = "", !.visited = {},
                                  !.added = {}, !.lf = ZeroTime,
                                  !.stale = FALSE]
    /\ UNCHANGED <<now, feeds, mutex, semaphore, wg, tasks, saver, dbFeed,
                   dbPost, callers, callsLeft, attempt, crashed>>
    /\ UNCHANGED siteVars

LoopRange ==
    /\ crashed = NoCrash
    /\ loop.pc = "range"
    /\ \/ \E k \in DOMAIN feeds \ loop.visited :
             loop' = [loop EXCEPT !.pc = "check", !.key = k,
                                  !.visited = @ \cup {k}, !.added = @ \ {k},
                                  !.lf = ZeroTime, !.stale = FALSE]
       \/ /\ (DOMAIN feeds \ loop.visited) \subseteq loop.added
          /\ loop' = [loop EXCEPT !.pc = "wait", !.key = "", !.visited = {},
                                  !.added = {}, !.lf = ZeroTime,
                                  !.stale = FALSE]
    /\ UNCHANGED <<now, feeds, mutex, semaphore, wg, tasks, saver, dbFeed,
                   dbPost, callers, callsLeft, attempt, crashed>>
    /\ UNCHANGED siteVars

\* line 246
LoopCheck ==
    /\ crashed = NoCrash
    /\ loop.pc = "check"
    /\ IF loop.key \notin DOMAIN feeds
       THEN /\ crashed' = NilDeref
            /\ loop' = [loop EXCEPT !.pc = "panic"]
       ELSE /\ loop' = [loop EXCEPT
                          !.lf = feeds[loop.key].LastFetched,
                          !.stale = IsStale(feeds[loop.key].LastFetched,
                                            loop.start),
                          !.pc = IF IsStale(feeds[loop.key].LastFetched,
                                            loop.start)
                                 THEN "acquire" ELSE "range"]
            /\ UNCHANGED crashed
    /\ UNCHANGED <<now, feeds, mutex, semaphore, wg, tasks, saver, dbFeed,
                   dbPost, callers, callsLeft, attempt>>
    /\ UNCHANGED siteVars

\* SemaphoreAcquire on a channel that never fills
SemaphoreAcquireUnbounded == semaphore' = semaphore + 1

SemaphoreAcquire == semaphore < SemaphoreCap /\ semaphore' = semaphore + 1

\* lines 247-262: take a token, wg.Add(1), go func(r.feeds[feedLink])
LoopAcquire ==
    /\ crashed = NoCrash
    /\ loop.pc = "acquire"
    /\ SemaphoreAcquire
    /\ wg' = wg + 1
    /\ tasks' = tasks (+) SetToBag({NewTask(loop.key,
                                 IF loop.key \in DOMAIN feeds
                                 THEN "attached" ELSE "nil")})
    /\ loop' = [loop EXCEPT !.pc = "range"]
    /\ UNCHANGED <<now, feeds, mutex, saver, dbFeed, dbPost, callers,
                   callsLeft, attempt, crashed>>
    /\ UNCHANGED siteVars

\* WaitGroupWait that returns while one goroutine is still running
WaitGroupWaitButOne == wg <= 1

\* WaitGroupWait that returns at once
WaitGroupNoWait == TRUE

\* wg.Wait()
WaitGroupWait == wg = 0

\* line 266, log, time.Sleep(1 * time.Hour)
LoopWait ==
    /\ crashed = NoCrash
    /\ loop.pc = "wait"
    /\ WaitGroupWait
    /\ loop' = [loop EXCEPT !.pc = "sleep", !.wakeAt = now + SleepInterval]
    /\ UNCHANGED <<now, feeds, mutex, semaphore, wg, tasks, saver, dbFeed,
                   dbPost, callers, callsLeft, attempt, crashed>>
    /\ UNCHANGED siteVars

LoopWake ==
    /\ crashed = NoCrash
    /\ loop.pc = "sleep"
    /\ now >= loop.wakeAt
    /\ loop' = [loop EXCEPT !.pc = "begin", !.wakeAt = ZeroTime]
    /\ UNCHANGED <<now, feeds, mutex, semaphore, wg, tasks, saver, dbFeed,
                   dbPost, callers, callsLeft, attempt, crashed>>
    /\ UNCHANGED siteVars

----------------------------------------------------------------------------
\* updateFeedAndSaveNewItemsToDb(fh), run by the goroutine of line 250.
\* r is the state of one such goroutine.

\* line 158
Tracked(url) == url \in DOMAIN feeds

\* lines 156-165 and 171-174 (the Feed a holder points to is never modified)
TaskStart(r) ==
    /\ crashed = NoCrash
    /\ r.pc = "start"
    /\ IF r.fh = "nil"
       THEN /\ crashed' = NilDeref
            /\ tasks' = Become(r, [r EXCEPT !.pc = "panic"])
       ELSE LET f == IF r.fh = "attached" THEN feeds[r.key].Feed
                     ELSE r.fhFeed
            IN  /\ tasks' = Become(r,
                     IF ~Tracked(f.FeedLink)
                     THEN [r EXCEPT !.pc = "exit", !.url = f.FeedLink,
                                    !.fhFeed = StubFeed(""),
                                    !.result = "untracked"]
                     ELSE [r EXCEPT !.pc = "write167", !.url = f.FeedLink,
                                    !.fhFeed = StubFeed(""),
                                    !.prev = Links(f), !.fetchTime = now,
                                    !.entry = feeds[f.FeedLink].Feed,
                                    !.errBefore =
                                        IF f.FeedLink \in DOMAIN dbFeed
                                        THEN dbFeed[f.FeedLink].fetch_error
                                        ELSE ""])
                /\ UNCHANGED crashed
    /\ UNCHANGED <<now, feeds, mutex, loop, semaphore, wg, saver, dbFeed,
                   dbPost, callers, callsLeft, attempt>>
    /\ UNCHANGED siteVars

\* SetLastFetched that leaves the holder as it was
SetLastFetchedSkipped(m, url, fetchTime) == m

\* line 167
SetLastFetched(m, url, fetchTime) ==
    [m EXCEPT ![url].LastFetched = fetchTime]

\* lines 166-169, then rawFetchFeed starts.  The critical section writes one
\* field of a holder, so lock(), the write and unlock() are one step.
TaskWriteLastFetched(r) ==
    /\ crashed = NoCrash
    /\ r.pc = "write167"
    /\ mutex > 0
    /\ IF ~HasFeed(r.url)
       THEN /\ crashed' = NilDeref
            /\ mutex' = mutex - 1
            /\ tasks' = Become(r, [r EXCEPT !.pc = "panic"])
            /\ UNCHANGED <<feeds, attempt, dbFeed>>
       ELSE /\ feeds' = SetLastFetched(feeds, r.url, r.fetchTime)
            /\ dbFeed' = UpdateFeedLastRefreshTime(dbFeed, r.url, r.fetchTime)
            /\ tasks' = Become(r, [r EXCEPT !.pc = "fetch"])
            /\ attempt' = MapInsert(attempt, r.url,
                               [time |-> r.fetchTime, result |-> "",
                                feed |-> StubFeed("")])
            /\ UNCHANGED <<crashed, mutex>>
    /\ UNCHANGED <<now, loop, semaphore, wg, saver, dbPost, callers,
                   callsLeft>>
    /\ UNCHANGED siteVars

\* handleFeedFetchFailure that only logs
handleFeedFetchFailureSilent(db, url, err) == db

handleFeedFetchFailure(db, url, err) == SetFeedFetchError(db, url, err)

\* the stored error of an earlier attempt is left as it is
ClearFetchErrorSkipped(db, url) == db

\* line 184
ClearFetchError(db, url) == SetFeedFetchError(db, url, "")

\* lines 189-200
Prepare(feed, url) ==
    LET clean == sanitizeFeedItems(feed)
    IN  SetFeedLink([clean EXCEPT
           !.PublishedParsed =
               IF @ = <<>> /\ ~TryParseDate(clean.Published).err
               THEN <<TryParseDate(clean.Published).date>> ELSE @], url)

Logged(url, result, feed) ==
    IF url \in DOMAIN attempt
    THEN [attempt EXCEPT ![url].result = result, ![url].feed = feed]
    ELSE attempt

\* rawFetchFeed returns: lines 176-202
TaskFetchReturn(r, answers) ==
    /\ crashed = NoCrash
    /\ r.pc = "fetch"
    /\ \E a \in answers :
          IF a.err # ""
          THEN /\ dbFeed' = handleFeedFetchFailure(dbFeed, r.url, a.err)
               /\ tasks' = Become(r, [r EXCEPT !.pc = "exit",
                                               !.result = a.err])
               /\ attempt' = Logged(r.url, a.err, StubFeed(""))
          ELSE /\ dbFeed' = ClearFetchError(dbFeed, r.url)
               /\ tasks' = Become(r, [r EXCEPT
                     !.newF = Prepare(a.feed, r.url),
                     !.result = "fetched",
                     !.pc = IF HasFeed(r.url) THEN "write211"
                            ELSE "stub333"])
               /\ attempt' = Logged(r.url, "fetched", Prepare(a.feed, r.url))
    /\ UNCHANGED <<now, feeds, mutex, loop, semaphore, wg, saver, dbPost,
                   callers, callsLeft, crashed>>
    /\ UNCHANGED siteVars

\* line 207 -> AddFeedStub, line 333
TaskStubHasFeed(r) ==
    /\ crashed = NoCrash
    /\ r.pc = "stub333"
    /\ tasks' = Become(r, [r EXCEPT !.pc = IF HasFeed(r.url) THEN "write211"
                                           ELSE "stubLock"])
    /\ UNCHANGED <<now, feeds, mutex, loop, semaphore, wg, saver, dbFeed,
                   dbPost, callers, callsLeft, attempt, crashed>>
    /\ UNCHANGED siteVars

\* AddFeedStub, line 337
TaskStubLock(r) ==
    /\ crashed = NoCrash
    /\ r.pc = "stubLock"
    /\ Lock
    /\ tasks' = Become(r, [r EXCEPT !.pc = "stubWrite"])
    /\ UNCHANGED <<now, feeds, loop, semaphore, wg, saver, dbFeed, dbPost,
                   callers, callsLeft, attempt, crashed>>
    /\ UNCHANGED siteVars

\* AddFeedStub, lines 338-342
StubHolder(url) == FeedHolder(StubFeed(url), now - timeToBecomeStale)

TaskStubWrite(r) ==
    /\ crashed = NoCrash
    /\ r.pc = "stubWrite"
    /\ feeds' = MapInsert(feeds, r.url, StubHolder(r.url))
    /\ Unlock
    /\ loop' = NoteInsert(loop, r.url)
    /\ tasks' = Unlink(Become(r, [r EXCEPT !.pc = "write211",
                                            !.result = "recreated"]), r.url)
    /\ UNCHANGED <<now, semaphore, wg, saver, dbFeed, dbPost, callers,
                   callsLeft, attempt, crashed>>
    /\ UNCHANGED siteVars

\* NewItems without the filter on originalItemsMap
NewItemsAll(newF, originalLinks) == newF.Items

\* lines 214-219
NewItems(newF, originalLinks) ==
    SelectSeq(newF.Items, LAMBDA item : item.Link \notin originalLinks)

\* the fresh items are added to the document the holder has
SetFeedMerging(m, url, newF) ==
    [m EXCEPT ![url].Feed.Items = @ \o newF.Items]

\* line 211
SetFeed(m, url, newF) == [m EXCEPT ![url].Feed = newF]

\* lines 210-219, one step like lines 166-168
TaskWriteFeed(r) ==
    /\ crashed = NoCrash
    /\ r.pc = "write211"
    /\ mutex > 0
    /\ IF ~HasFeed(r.url)
       THEN /\ crashed' = NilDeref
            /\ mutex' = mutex - 1
            /\ tasks' = Become(r, [r EXCEPT !.pc = "panic"])
            /\ UNCHANGED feeds
       ELSE /\ feeds' = SetFeed(feeds, r.url, r.newF)
            /\ tasks' = Become(r, [r EXCEPT
                  !.toSend = NewItems(r.newF, r.prev),
                  !.pc = IF NewItems(r.newF, r.prev) = <<>>
                         THEN "finish" ELSE "send"])
            /\ UNCHANGED <<crashed, mutex>>
    /\ UNCHANGED <<now, loop, semaphore, wg, saver, dbFeed, dbPost, callers,
                   callsLeft, attempt>>
    /\ UNCHANGED siteVars

PostSaveRequest(feedLink, item) ==
    [FeedLink |-> feedLink, Title |-> item.Title, Link |-> item.Link,
     Date |-> item.PublishedParsed[1]]

\* a send overtakes the request the saver is still writing
ReceiveAlways == TRUE

\* line 99: the saver takes a request only at its select statement
ReceiveReady == saver.pc = "select"

\* lines 224-231 meet line 99: the channel is unbuffered
TaskSend(r) ==
    /\ crashed = NoCrash
    /\ r.pc = "send"
    /\ ReceiveReady
    /\ LET req == PostSaveRequest(r.newF.FeedLink, Head(r.toSend))
       IN  /\ saver' = [pc |-> "save", item |-> <<req>>]
           /\ tasks' = Become(r, [r EXCEPT
                 !.toSend = Tail(@),
                 !.sent = Append(@, req),
                 !.pc = IF Tail(r.toSend) = <<>> THEN "finish" ELSE "send"])
    /\ UNCHANGED <<now, feeds, mutex, loop, semaphore, wg, dbFeed, dbPost,
                   callers, callsLeft, attempt, crashed>>
    /\ UNCHANGED siteVars

\* line 234
TaskFinish(r) ==
    /\ crashed = NoCrash
    /\ r.pc = "finish"
    /\ feeds' = IF r.fh = "attached"
                THEN [feeds EXCEPT ![r.key].LastFetched = now]
                ELSE feeds
    /\ tasks' = Become(r, [r EXCEPT !.pc = "exit"])
    /\ UNCHANGED <<now, mutex, loop, semaphore, wg, saver, dbFeed, dbPost,
                   callers, callsLeft, attempt, crashed>>
    /\ UNCHANGED siteVars

SemaphoreRelease == semaphore > 0 /\ semaphore' = semaphore - 1

\* the deferred function, lines 251-254
TaskExit(r) ==
    /\ crashed = NoCrash
    /\ r.pc = "exit"
    /\ SemaphoreRelease
    /\ wg' = wg - 1
    /\ tasks' = tasks (-) SetToBag({r})
    /\ UNCHANGED <<now, feeds, mutex, loop, saver, dbFeed, dbPost, callers,
                   callsLeft, attempt, crashed>>
    /\ UNCHANGED siteVars

----------------------------------------------------------------------------
\* startDbSaver

Senders == {r \in Running : r.pc = "send"}

\* default: time.Sleep(10 * time.Second), and around the loop again
SaverDefault ==
    /\ crashed = NoCrash
    /\ saver.pc = "select"
    /\ Senders = {}
    /\ UNCHANGED vars

\* the request received is dropped without a write
SaverDiscard ==
    /\ crashed = NoCrash
    /\ saver.pc = "save"
    /\ saver' = [pc |-> "select", item |-> <<>>]
    /\ UNCHANGED <<now, feeds, mutex, loop, semaphore, wg, tasks, dbFeed,
                   dbPost, callers, callsLeft, attempt, crashed>>
    /\ UNCHANGED siteVars

\* line 100
SaverSave ==
    /\ crashed = NoCrash
    /\ saver.pc = "save"
    /\ LET item == saver.item[1]
       IN  dbPost' = SavePost(dbFeed, dbPost, item.FeedLink, item.Title,
                              item.Link, item.Date)
    /\ saver' = [pc |-> "select", item |-> <<>>]
    /\ UNCHANGED <<now, feeds, mutex, loop, semaphore, wg, tasks, dbFeed,
                   callers, callsLeft, attempt, crashed>>
    /\ UNCHANGED siteVars

----------------------------------------------------------------------------
\* Web requests calling AddFeedStub, RemoveFeed and Fetch

\* AddFeedStub, line 333
CallAddFeedStub(c, url) ==
    /\ crashed = NoCrash
    /\ callers[c].pc = "idle"
    /\ callsLeft > 0
    /\ callsLeft' = callsLeft - 1
    /\ callers' = [callers EXCEPT ![c] =
                      IF HasFeed(url) THEN IdleCaller
                      ELSE [IdleCaller EXCEPT !.pc = "addLock",
                                              !.op = "AddFeedStub",
                                              !.url = url]]
    /\ UNCHANGED <<now, feeds, mutex, loop, semaphore, wg, tasks, saver,
                   dbFeed, dbPost, attempt, crashed>>
    /\ UNCHANGED siteVars

\* RemoveFeed, line 346
CallRemoveFeed(c, url) ==
    /\ crashed = NoCrash
    /\ callers[c].pc = "idle"
    /\ callsLeft > 0
    /\ callsLeft' = callsLeft - 1
    /\ callers' = [callers EXCEPT ![c] =
                      IF ~HasFeed(url) THEN IdleCaller
                      ELSE [IdleCaller EXCEPT !.pc = "removeLock",
                                              !.op = "RemoveFeed",
                                              !.url = url]]
    /\ UNCHANGED <<now, feeds, mutex, loop, semaphore, wg, tasks, saver,
                   dbFeed, dbPost, attempt, crashed>>
    /\ UNCHANGED siteVars

\* Fetch, lines 371-378: the error is returned to the request
CallFetch(c, url) ==
    /\ crashed = NoCrash
    /\ callers[c].pc = "idle"
    /\ callsLeft > 0
    /\ callsLeft' = callsLeft - 1
    /\ \E r \in ParseURL(url) :
          callers' = [callers EXCEPT ![c] =
              IF r.err # "" THEN IdleCaller
              ELSE [IdleCaller EXCEPT
                      !.pc = "fetchLock", !.op = "Fetch", !.url = url,
                      !.feed = sanitizeFeedItems(
                                   SetFeedLink(r.feed, url))]]
    /\ UNCHANGED <<now, feeds, mutex, loop, semaphore, wg, tasks, saver,
                   dbFeed, dbPost, attempt, crashed>>
    /\ UNCHANGED siteVars

CallLock(c) ==
    /\ crashed = NoCrash
    /\ callers[c].pc \in {"addLock", "removeLock", "fetchLock"}
    /\ Lock
    /\ callers' = [callers EXCEPT ![c].pc =
                      CASE callers[c].pc = "addLock" -> "addWrite"
                        [] callers[c].pc = "removeLock" -> "removeWrite"
                        [] OTHER -> "fetchWrite"]
    /\ UNCHANGED <<now, feeds, loop, semaphore, wg, tasks, saver, dbFeed,
                   dbPost, callsLeft, attempt, crashed>>
    /\ UNCHANGED siteVars

\* AddFeedStub, lines 338-342
CallAddWrite(c) ==
    /\ crashed = NoCrash
    /\ callers[c].pc = "addWrite"
    /\ feeds' = MapInsert(feeds, callers[c].url, StubHolder(callers[c].url))
    /\ Unlock
    /\ loop' = NoteInsert(loop, callers[c].url)
    /\ tasks' = Unlink(tasks, callers[c].url)
    /\ callers' = [callers EXCEPT ![c] = IdleCaller]
    /\ UNCHANGED <<now, semaphore, wg, saver, dbFeed, dbPost, callsLeft,
                   attempt, crashed>>
    /\ UNCHANGED siteVars

\* RemoveFeed, lines 352-353
CallRemoveWrite(c) ==
    /\ crashed = NoCrash
    /\ callers[c].pc = "removeWrite"
    /\ feeds' = MapDelete(feeds, callers[c].url)
    /\ Unlock
    /\ tasks' = Unlink(tasks, callers[c].url)
    /\ callers' = [callers EXCEPT ![c] = IdleCaller]
    /\ UNCHANGED <<now, loop, semaphore, wg, saver, dbFeed, dbPost, callsLeft,
                   attempt, crashed>>
    /\ UNCHANGED siteVars

\* Fetch, lines 381-385
CallFetchWrite(c) ==
    /\ crashed = NoCrash
    /\ callers[c].pc = "fetchWrite"
    /\ feeds' = MapInsert(feeds, callers[c].url,
                          FeedHolder(callers[c].feed, now))
    /\ Unlock
    /\ loop' = NoteInsert(loop, callers[c].url)
    /\ tasks' = Unlink(tasks, callers[c].url)
    /\ callers' = [callers EXCEPT ![c] = IdleCaller]
    /\ UNCHANGED <<now, semaphore, wg, saver, dbFeed, dbPost, callsLeft,
                   attempt, crashed>>
    /\ UNCHANGED siteVars

----------------------------------------------------------------------------
\* The map is read without the lock (HasFeed, line 158, the range loop of
\* line 244 and the lookups of lines 246 and 262) while another goroutine
\* inserts or deletes under the lock: the runtime may stop the process.

MapWriteInProgress ==
    \/ loop.pc = "seed"
    \/ \E r \in Running : r.pc = "stubWrite"
    \/ \E c \in CallerIds :
          callers[c].pc \in {"addWrite", "removeWrite", "fetchWrite"}

UnlockedMapRead ==
    \/ loop.pc \in ScanPcs
    \/ \E r \in Running : r.pc \in {"start", "fetch", "stub333"}
    \/ \E c \in CallerIds : callers[c].pc = "idle" /\ callsLeft > 0

MapRaceFatal ==
    /\ crashed = NoCrash
    /\ MapWriteInProgress
    /\ UnlockedMapRead
    /\ crashed' = MapRace
    /\ UNCHANGED <<now, feeds, mutex, loop, semaphore, wg, tasks, saver,
                   dbFeed, dbPost, callers, callsLeft, attempt>>
    /\ UNCHANGED siteVars

----------------------------------------------------------------------------
\* The handlers of site.go that reach the reaper: a subscription toggled on
\* (apiToggleSubscriptionHandler, lines 1525-1543), toggled off (lines
\* 1544-1556) and the page of one feed (feedDetailsHandler, line 989).
\* Handler h serves the requests of user h.  A statement of storage is one
\* step (sqlite.go runs each under its own lock); a write to the map is one
\* step that needs the mutex.

HandlerIds == {1, 2}

IdleHandler ==
    [pc |-> "idle", op |-> "", url |-> "", fid |-> 0, orphans |-> {},
     feed |-> StubFeed("")]

\* GetFeed, lines 297-299: r.feeds[url].Feed, on a nil holder when the key
\* is not in the map
GetFeed(url) ==
    IF url \in DOMAIN feeds
    THEN [panic |-> FALSE, feed |-> feeds[url].Feed]
    ELSE [panic |-> TRUE, feed |-> StubFeed("")]

MaxId(ids) == IF ids = {} THEN 0 ELSE CHOOSE n \in ids : \A k \in ids : k <= n

\* WriteFeed: INSERT INTO feed(url) ... ON CONFLICT(url) DO NOTHING
WriteFeed(db, url) ==
    IF url \in DOMAIN db THEN db
    ELSE [u \in DOMAIN db \cup {url} |->
             IF u = url
             THEN [id |-> MaxId({db[x].id : x \in DOMAIN db}) + 1,
                   last_refreshed |-> ZeroTime, fetch_error |-> ""]
             ELSE db[u]]

\* Subscribe, lines 275-281
Subscribe(subs, uid, fid) == subs \cup {[user_id |-> uid, feed_id |-> fid]}

\* Unsubscribe: DELETE FROM subscribe WHERE user_id=? AND feed_id=?
Unsubscribe(subs, uid, fid) == subs \ {[user_id |-> uid, feed_id |-> fid]}

Subscribed(subs) == {x.feed_id : x \in subs}

\* The row of table post: (feed_id, url) is UNIQUE and stands for its id.
PostId(p) == <<p.feed_id, p.url>>

NoPost == <<0, "">>

\* GetPostId: the post with this url in a feed the user is subscribed to,
\* else the first post with this url
GetPostId(db, posts, subs, postUrl, uid) ==
    LET own == {p \in posts :
                   /\ p.url = postUrl
                   /\ \E u \in DOMAIN db : db[u].id = p.feed_id
                   /\ [user_id |-> uid, feed_id |-> p.feed_id] \in subs}
        any == {p \in posts : p.url = postUrl}
    IN  IF own # {} THEN PostId(CHOOSE p \in own : TRUE)
        ELSE IF any # {} THEN PostId(CHOOSE p \in any : TRUE)
        ELSE NoPost

ReadRows(reads, userId, postId) ==
    {r \in reads : r.user_id = userId /\ r.post_id = postId}

\* GetReadStatus: has_read of the row, false when Scan finds no row
GetReadStatus(reads, userId, postId) ==
    IF ReadRows(reads, userId, postId) = {} THEN FALSE
    ELSE (CHOOSE r \in ReadRows(reads, userId, postId) : TRUE).has_read

\* an insert that leaves an existing row as it is
SetReadStatusIfAbsent(reads, userId, postId, read) ==
    IF ReadRows(reads, userId, postId) # {} THEN reads
    ELSE reads \cup {[user_id |-> userId, post_id |-> postId,
                      has_read |-> read]}

\* SetReadStatus: UPDATE when a row exists, INSERT otherwise
SetReadStatus(reads, userId, postId, read) ==
    IF ReadRows(reads, userId, postId) # {}
    THEN {IF r \in ReadRows(reads, userId, postId)
          THEN [r EXCEPT !.has_read = read] ELSE r : r \in reads}
    ELSE reads \cup {[user_id |-> userId, post_id |-> postId,
                      has_read |-> read]}

ToggleReadStatus(reads, userId, postId) ==
    SetReadStatus(reads, userId, postId,
                  ~GetReadStatus(reads, userId, postId))

\* DeleteOrphanFeeds: the urls it returns, and the tables it leaves
OrphanFeedUrls(db, subs) ==
    {u \in DOMAIN db : db[u].id \notin Subscribed(subs)}

DeleteOrphanFeeds(db, subs) ==
    [u \in DOMAIN db \ OrphanFeedUrls(db, subs) |-> db[u]]

DeleteOrphanPosts(posts, subs) ==
    {p \in posts : p.feed_id \in Subscribed(subs)}

\* start() has filled the map from storage (lines 73-88); requests are
\* taken from then on
Seeded == loop.pc \notin {"getURLs", "seedLock", "seed"}

\* site.go line 1528: the request arrives, s.db.WriteFeed(feedUrl)
HandleSubscribe(h, url) ==
    /\ crashed = NoCrash
    /\ Seeded
    /\ handlers[h].pc = "idle"
    /\ callsLeft > 0
    /\ callsLeft' = callsLeft - 1
    /\ dbFeed' = WriteFeed(dbFeed, url)
    /\ handlers' = [handlers EXCEPT ![h] =
                       [IdleHandler EXCEPT !.pc = "getFeedID",
                                           !.op = "subscribe", !.url = url]]
    /\ UNCHANGED <<now, feeds, mutex, loop, semaphore, wg, tasks, saver,
                   dbPost, callers, attempt, crashed, dbSubscribe,
                   dbPostRead, unit>>

\* Subscribe, lines 270-271
HandleGetFeedID(h) ==
    /\ crashed = NoCrash
    /\ handlers[h].pc = "getFeedID"
    /\ handlers' = [handlers EXCEPT
                       ![h].fid = GetFeedID(dbFeed, handlers[h].url),
                       ![h].pc = "insert"]
    /\ UNCHANGED <<now, feeds, mutex, loop, semaphore, wg, tasks, saver,
                   dbFeed, dbPost, callers, callsLeft, attempt, crashed,
                   dbSubscribe, dbPostRead, unit>>

\* Subscribe, lines 275-281
HandleInsert(h) ==
    /\ crashed = NoCrash
    /\ handlers[h].pc = "insert"
    /\ dbSubscribe' = Subscribe(dbSubscribe, h, handlers[h].fid)
    /\ handlers' = [handlers EXCEPT ![h].pc = "hasFeed", ![h].fid = 0]
    /\ UNCHANGED <<now, feeds, mutex, loop, semaphore, wg, tasks, saver,
                   dbFeed, dbPost, dbPostRead, callers, callsLeft, attempt,
                   crashed, unit>>

\* site.go line 1532, then AddFeedStub line 333
HandleHasFeed(h) ==
    /\ crashed = NoCrash
    /\ handlers[h].pc \in {"hasFeed", "addHasFeed"}
    /\ handlers' = [handlers EXCEPT ![h] =
          IF handlers[h].pc = "hasFeed"
          THEN IF HasFeed(handlers[h].url) THEN IdleHandler
               ELSE [@ EXCEPT !.pc = "addHasFeed"]
          ELSE [@ EXCEPT !.pc = IF HasFeed(handlers[h].url) THEN "fetch"
                                ELSE "addWrite"]]
    /\ UNCHANGED <<now, feeds, mutex, loop, semaphore, wg, tasks, saver,
                   dbFeed, dbPost, callers, callsLeft, attempt, crashed,
                   dbSubscribe, dbPostRead, unit>>

\* AddFeedStub, lines 337-342; then go func() of site.go line 1535
HandleAddWrite(h) ==
    /\ crashed = NoCrash
    /\ handlers[h].pc = "addWrite"
    /\ mutex > 0
    /\ feeds' = MapInsert(feeds, handlers[h].url, StubHolder(handlers[h].url))
    /\ loop' = NoteInsert(loop, handlers[h].url)
    /\ tasks' = Unlink(tasks, handlers[h].url)
    /\ handlers' = [handlers EXCEPT ![h].pc = "fetch"]
    /\ UNCHANGED <<now, mutex, semaphore, wg, saver, dbFeed, dbPost, callers,
                   callsLeft, attempt, crashed, dbSubscribe, dbPostRead, unit>>

\* Fetch, lines 371-379, and site.go lines 1537-1540
HandleFetch(h, answers) ==
    /\ crashed = NoCrash
    /\ handlers[h].pc = "fetch"
    /\ \E a \in answers :
          IF a.err # ""
          THEN /\ dbFeed' = SetFeedFetchError(dbFeed, handlers[h].url, a.err)
               /\ handlers' = [handlers EXCEPT ![h] = IdleHandler]
          ELSE /\ handlers' = [handlers EXCEPT
                     ![h].pc = "fetchWrite",
                     ![h].feed = sanitizeFeedItems(
                                     SetFeedLink(a.feed, handlers[h].url))]
               /\ UNCHANGED dbFeed
    /\ UNCHANGED <<now, feeds, mutex, loop, semaphore, wg, tasks, saver,
                   dbPost, callers, callsLeft, attempt, crashed, dbSubscribe,
                   dbPostRead,
                   unit>>

\* Fetch, lines 381-385
HandleFetchWrite(h) ==
    /\ crashed = NoCrash
    /\ handlers[h].pc = "fetchWrite"
    /\ mutex > 0
    /\ feeds' = MapInsert(feeds, handlers[h].url,
                          FeedHolder(handlers[h].feed, now))
    /\ loop' = NoteInsert(loop, handlers[h].url)
    /\ tasks' = Unlink(tasks, handlers[h].url)
    /\ handlers' = [handlers EXCEPT ![h] = IdleHandler]
    /\ UNCHANGED <<now, mutex, semaphore, wg, saver, dbFeed, dbPost, callers,
                   callsLeft, attempt, crashed, dbSubscribe, dbPostRead, unit>>

\* site.go line 1546: the request arrives, s.db.Unsubscribe(username, feedUrl)
HandleUnsubscribe(h, url) ==
    /\ crashed = NoCrash
    /\ Seeded
    /\ handlers[h].pc = "idle"
    /\ callsLeft > 0
    /\ callsLeft' = callsLeft - 1
    /\ dbSubscribe' = Unsubscribe(dbSubscribe, h, GetFeedID(dbFeed, url))
    /\ handlers' = [handlers EXCEPT ![h] =
                       [IdleHandler EXCEPT !.pc = "orphans",
                                           !.op = "unsubscribe", !.url = url]]
    /\ UNCHANGED <<now, feeds, mutex, loop, semaphore, wg, tasks, saver,
                   dbFeed, dbPost, dbPostRead, callers, attempt, crashed, unit>>

\* site.go line 1553: s.db.DeleteOrphanFeeds()
HandleDeleteOrphanFeeds(h) ==
    /\ crashed = NoCrash
    /\ handlers[h].pc = "orphans"
    /\ dbFeed' = DeleteOrphanFeeds(dbFeed, dbSubscribe)
    /\ dbPost' = DeleteOrphanPosts(dbPost, dbSubscribe)
    /\ handlers' = [handlers EXCEPT ![h] =
          IF OrphanFeedUrls(dbFeed, dbSubscribe) = {} THEN IdleHandler
          ELSE [@ EXCEPT !.pc = "remove", !.url = "",
                         !.orphans = OrphanFeedUrls(dbFeed, dbSubscribe)]]
    /\ UNCHANGED <<now, feeds, mutex, loop, semaphore, wg, tasks, saver,
                   callers, callsLeft, attempt, crashed, dbSubscribe,
                   dbPostRead, unit>>

\* site.go lines 1554-1556 and RemoveFeed, lines 346-349
HandleRemoveFeed(h) ==
    /\ crashed = NoCrash
    /\ handlers[h].pc = "remove"
    /\ \E u \in handlers[h].orphans :
          handlers' = [handlers EXCEPT ![h] =
             IF HasFeed(u) THEN [@ EXCEPT !.pc = "removeWrite", !.url = u]
             ELSE IF handlers[h].orphans = {u} THEN IdleHandler
             ELSE [@ EXCEPT !.orphans = @ \ {u}]]
    /\ UNCHANGED <<now, feeds, mutex, loop, semaphore, wg, tasks, saver,
                   dbFeed, dbPost, callers, callsLeft, attempt, crashed,
                   dbSubscribe, dbPostRead, unit>>

\* RemoveFeed, lines 351-353
HandleRemoveWrite(h) ==
    /\ crashed = NoCrash
    /\ handlers[h].pc = "removeWrite"
    /\ mutex > 0
    /\ feeds' = MapDelete(feeds, handlers[h].url)
    /\ tasks' = Unlink(tasks, handlers[h].url)
    /\ handlers' = [handlers EXCEPT ![h] =
          IF handlers[h].orphans = {handlers[h].url} THEN IdleHandler
          ELSE [@ EXCEPT !.pc = "remove", !.url = "",
                         !.orphans = @ \ {handlers[h].url}]]
    /\ UNCHANGED <<now, mutex, loop, semaphore, wg, saver, dbFeed, dbPost,
                   callers, callsLeft, attempt, crashed, dbSubscribe,
                   dbPostRead, unit>>

\* feedDetailsHandler, line 989: a panic in a handler ends the request
\* (net/http recovers it), the process keeps running
HandleFeedDetails(h, url) ==
    /\ crashed = NoCrash
    /\ Seeded
    /\ handlers[h].pc = "idle"
    /\ callsLeft > 0
    /\ callsLeft' = callsLeft - 1
    /\ handlers' = [handlers EXCEPT ![h] =
          [IdleHandler EXCEPT !.pc = IF GetFeed(url).panic THEN "panic"
                                     ELSE "render",
                              !.op = "feedDetails", !.url = url,
                              !.feed = GetFeed(url).feed]]
    /\ UNCHANGED <<now, feeds, mutex, loop, semaphore, wg, tasks, saver,
                   dbFeed, dbPost, callers, attempt, crashed, dbSubscribe,
                   dbPostRead,
                   unit>>

\* the response is written, or the connection is closed after the panic
HandleReturn(h) ==
    /\ crashed = NoCrash
    /\ handlers[h].pc \in {"panic", "render"}
    /\ handlers' = [handlers EXCEPT ![h] = IdleHandler]
    /\ UNCHANGED <<now, feeds, mutex, loop, semaphore, wg, tasks, saver,
                   dbFeed, dbPost, callers, callsLeft, attempt, crashed,
                   dbSubscribe, dbPostRead, unit>>

----------------------------------------------------------------------------
\* Functions called on their own, one call after the other, as a test does.
\* `unit` keeps the name of the latest call, its argument and what is needed
\* to judge its result.

\* AddFeedStub that inserts without looking
AddFeedStubAlways(m, url, t) ==
    MapInsert(m, url, FeedHolder(StubFeed(url), t - timeToBecomeStale))

\* AddFeedStub, lines 332-343, run to its end at time t
AddFeedStub(m, url, t) ==
    IF url \in DOMAIN m THEN m
    ELSE MapInsert(m, url, FeedHolder(StubFeed(url), t - timeToBecomeStale))

\* RemoveFeed, lines 345-354, run to its end
RemoveFeed(m, url) ==
    IF url \notin DOMAIN m THEN m ELSE MapDelete(m, url)

\* a failed fetch is noted in the map as a Reconcile notes it
FetchNotingFailure(m, url, answer, t) ==
    IF answer.err # ""
    THEN IF url \in DOMAIN m THEN [m EXCEPT ![url].LastFetched = t] ELSE m
    ELSE MapInsert(m, url,
             FeedHolder(sanitizeFeedItems(SetFeedLink(answer.feed, url)),
                        t))

\* Fetch, lines 370-388, run to its end at time t with the parser's answer
Fetch(m, url, answer, t) ==
    IF answer.err # "" THEN m
    ELSE MapInsert(m, url,
             FeedHolder(sanitizeFeedItems(SetFeedLink(answer.feed, url)),
                        t))

\* the urls given to AddFeedStub or Fetch so far
Added == IF unit.fn \in {"New", "AddFeedStub", "RemoveFeed", "Fetch"}
         THEN unit.out.added ELSE {}

UnitAddFeedStub(url) ==
    /\ callsLeft > 0
    /\ callsLeft' = callsLeft - 1
    /\ feeds' = AddFeedStub(feeds, url, now)
    /\ unit' = [fn |-> "AddFeedStub", arg |-> url,
                out |-> [before |-> feeds, added |-> Added \cup {url}]]
    /\ UNCHANGED <<now, mutex, loop, semaphore, wg, tasks, saver, dbFeed,
                   dbPost, callers, attempt, crashed, handlers, dbSubscribe,
                   dbPostRead>>

UnitRemoveFeed(url) ==
    /\ callsLeft > 0
    /\ callsLeft' = callsLeft - 1
    /\ feeds' = RemoveFeed(feeds, url)
    /\ unit' = [fn |-> "RemoveFeed", arg |-> url,
                out |-> [before |-> feeds, added |-> Added]]
    /\ UNCHANGED <<now, mutex, loop, semaphore, wg, tasks, saver, dbFeed,
                   dbPost, callers, attempt, crashed, handlers, dbSubscribe,
                   dbPostRead>>

\* src/sqlite/sqlite.go, lines 620-633, called on its own
UnitSavePost(feedUrl, title, url, publishedDatetime) ==
    /\ dbPost' = SavePost(dbFeed, dbPost, feedUrl, title, url,
                          publishedDatetime)
    /\ unit' = [fn |-> "SavePost",
                arg |-> <<feedUrl, title, url, publishedDatetime>>,
                out |-> [before |-> dbPost]]
    /\ UNCHANGED <<now, feeds, mutex, loop, semaphore, wg, tasks, saver,
                   dbFeed, callers, callsLeft, attempt, crashed, handlers,
                   dbSubscribe, dbPostRead>>

\* what a read-status call leaves alone
ReadUnchanged ==
    UNCHANGED <<now, feeds, mutex, loop, semaphore, wg, tasks, saver,
                dbFeed, dbPost, callers, callsLeft, attempt, crashed,
                handlers, dbSubscribe>>

\* src/sqlite/sqlite.go, lines 842-866
UnitSetReadStatus(userId, postUrl, read) ==
    LET postId == GetPostId(dbFeed, dbPost, dbSubscribe, postUrl, userId)
    IN  /\ postId # NoPost
        /\ dbPostRead' = SetReadStatus(dbPostRead, userId, postId, read)
        /\ unit' = [fn |-> "SetReadStatus",
                    arg |-> <<userId, postId, read>>,
                    out |-> [before |-> dbPostRead, read |-> read]]
        /\ ReadUnchanged

\* src/sqlite/sqlite.go, lines 868-881
UnitToggleReadStatus(userId, postUrl) ==
    LET postId == GetPostId(dbFeed, dbPost, dbSubscribe, postUrl, userId)
    IN  /\ postId # NoPost
        /\ dbPostRead' = ToggleReadStatus(dbPostRead, userId, postId)
        /\ unit' = [fn |-> "ToggleReadStatus",
                    arg |-> <<userId, postId>>,
                    out |-> [before |-> dbPostRead,
                             read |-> GetReadStatus(dbPostRead, userId,
                                                    postId)]]
        /\ ReadUnchanged

\* src/sqlite/sqlite.go, lines 883-895
UnitGetReadStatus(userId, postUrl) ==
    LET postId == GetPostId(dbFeed, dbPost, dbSubscribe, postUrl, userId)
    IN  /\ postId # NoPost
        /\ unit' = [fn |-> "GetReadStatus",
                    arg |-> <<userId, postId>>,
                    out |-> [before |-> dbPostRead,
                             read |-> GetReadStatus(dbPostRead, userId,
                                                    postId)]]
        /\ dbPostRead' = dbPostRead
        /\ ReadUnchanged

\* src/reaper/reaper.go, lines 107-153, called on the document parsed
UnitSanitize ==
    /\ unit.fn = "ParseURL"
    /\ unit' = [fn |-> "sanitizeFeedItems", arg |-> unit.arg,
                out |-> sanitizeFeedItems(unit.arg)]
    /\ UNCHANGED <<now, feeds, mutex, loop, semaphore, wg, tasks, saver,
                   dbFeed, dbPost, callers, callsLeft, attempt, crashed,
                   handlers, dbSubscribe, dbPostRead>>

UnitFetch(url) ==
    /\ callsLeft > 0
    /\ callsLeft' = callsLeft - 1
    /\ \E a \in ParseURL(url) :
          /\ feeds' = Fetch(feeds, url, a, now)
          \* lines 372-374 and 387: the error of the parser call is returned
          /\ unit' = [fn |-> "Fetch", arg |-> url,
                      out |-> [before |-> feeds, added |-> Added \cup {url},
                               answer |-> a, err |-> a.err,
                               db |-> <<dbFeed, dbPost>>]]
    /\ UNCHANGED <<now, mutex, loop, semaphore, wg, tasks, saver, dbFeed,
                   dbPost, callers, attempt, crashed, handlers, dbSubscribe,
                   dbPostRead>>

----------------------------------------------------------------------------
\* Time passes

Tick(limit) ==
    /\ crashed = NoCrash
    /\ now < limit
    /\ now' = now + 1
    /\ UNCHANGED <<feeds, mutex, loop, semaphore, wg, tasks, saver, dbFeed,
                   dbPost, callers, callsLeft, attempt, crashed>>
    /\ UNCHANGED siteVars

----------------------------------------------------------------------------
\* The state after reaper.New(db) has returned

FeedRow(id, lastRefreshed) ==
    [id |-> id, last_refreshed |-> lastRefreshed, fetch_error |-> ""]

InitCommon ==
    /\ now = BootTime
    /\ feeds = [u \in {} |-> FeedHolder(StubFeed(u), ZeroTime)]
    /\ mutex = 1
    /\ loop = InitLoop
    /\ semaphore = 0
    /\ wg = 0
    /\ tasks = EmptyBag
    /\ saver = [pc |-> "select", item |-> <<>>]
    /\ dbPost = {}
    /\ callers = [c \in CallerIds |-> IdleCaller]
    /\ attempt = [u \in {} |-> [time |-> ZeroTime, result |-> "",
                                 feed |-> StubFeed("")]]
    /\ crashed = NoCrash

\* no request to site.go, nobody subscribed, no function called on its own
NoUnit == [fn |-> "", arg |-> <<>>, out |-> <<>>]

InitNoSite ==
    /\ handlers = [h \in HandlerIds |-> IdleHandler]
    /\ dbSubscribe = {}
    /\ dbPostRead = {}
    /\ unit = NoUnit

PersistedTimes == {ZeroTime, BootTime - timeToBecomeStale}

\* Two feeds in storage: one never refreshed, one with a persisted time
Init ==
    /\ InitCommon
    /\ InitNoSite
    /\ callsLeft = 0
    /\ \E t \in PersistedTimes :
          dbFeed = [u \in WebURLs |->
                       FeedRow(FeedNumber(u),
                               IF u = "u1" THEN ZeroTime ELSE t)]

InitWeb ==
    /\ InitCommon
    /\ InitNoSite
    /\ callsLeft = MaxCalls
    /\ dbFeed = [u \in WebURLs |-> FeedRow(FeedNumber(u), ZeroTime)]

\* More feeds than the semaphore has tokens, none ever refreshed
InitLimiter ==
    /\ InitCommon
    /\ InitNoSite
    /\ callsLeft = 0
    /\ dbFeed = [u \in {x \in LimiterURLs : FeedNumber(x) - 2 <= NumLimiterFeeds}
                    |-> FeedRow(FeedNumber(u), ZeroTime)]

LoopCycle ==
    \/ LoopGetURLs
    \/ LoopSeedLock
    \/ LoopSeed
    \/ LoopBegin
    \/ LoopRange
    \/ LoopCheck
    \/ LoopAcquire
    \/ LoopWait

TaskStep(r, answers) ==
    \/ TaskStart(r)
    \/ TaskWriteLastFetched(r)
    \/ TaskFetchReturn(r, answers)
    \/ TaskStubHasFeed(r)
    \/ TaskStubLock(r)
    \/ TaskStubWrite(r)
    \/ TaskWriteFeed(r)
    \/ TaskSend(r)
    \/ TaskFinish(r)
    \/ TaskExit(r)

\* a task none of whose entries is removed under it
TaskStepTracked(r, answers) ==
    \/ TaskStart(r)
    \/ TaskWriteLastFetched(r)
    \/ TaskFetchReturn(r, answers)
    \/ TaskWriteFeed(r)
    \/ TaskSend(r)
    \/ TaskFinish(r)
    \/ TaskExit(r)

TaskStepFailing(r) ==
    \/ TaskStart(r)
    \/ TaskWriteLastFetched(r)
    \/ TaskFetchReturn(r, {a \in ParseURL(r.url) : a.err # ""})
    \/ TaskExit(r)

SaverStep ==
    \/ SaverDefault
    \/ SaverSave

CallerStep(c) ==
    \/ \E url \in WebURLs : CallAddFeedStub(c, url)
    \/ \E url \in WebURLs : CallRemoveFeed(c, url)
    \/ \E url \in WebURLs : CallFetch(c, url)
    \/ CallLock(c)
    \/ CallAddWrite(c)
    \/ CallRemoveWrite(c)
    \/ CallFetchWrite(c)

\* The refresh loop, its tasks and the saver, over several cycles
Next ==
    \/ LoopCycle
    \/ LoopWake
    \/ \E r \in Running : TaskStepTracked(r, ParseURL(r.url))
    \/ SaverStep
    \/ Tick(MaxTime)

Spec == Init /\ [][Next]_vars

\* The goroutine of a feed completes its blocked send (lines 224-231).
SendOf(url) == \E r \in Running : r.url = url /\ TaskSend(r)

\* The same program under fair scheduling: the saver goroutine is run when
\* it can write, and a goroutine blocked in its send is served when the
\* saver comes back to its select often enough (the runtime keeps blocked
\* senders in a first-in first-out queue).
Fairness ==
    /\ WF_vars(SaverSave)
    /\ \A url \in WebURLs : SF_vars(SendOf(url))

\* The first cycle after a restart: the second feed was refreshed by the
\* process that ran before, never, TTL before the restart or an hour before
\* it.  unit keeps the rows storage held at startup.
RestartTimes == {ZeroTime, BootTime - timeToBecomeStale, BootTime - 1}

InitRestart ==
    /\ InitCommon
    /\ callsLeft = 0
    /\ \E t \in RestartTimes :
          dbFeed = [u \in WebURLs |->
                       FeedRow(FeedNumber(u),
                               IF u = "u1" THEN ZeroTime ELSE t)]
    /\ handlers = [h \in HandlerIds |-> IdleHandler]
    /\ dbSubscribe = {}
    /\ dbPostRead = {}
    /\ unit = [fn |-> "Open", arg |-> dbFeed, out |-> <<>>]

NextRestart ==
    \/ LoopCycle
    \/ \E r \in Running : TaskStepTracked(r, ParseURL(r.url))
    \/ SaverStep
    \/ Tick(MaxTime)

SpecRestart == InitRestart /\ [][NextRestart]_vars

\* Both feeds are stale at startup, so that their goroutines send at the
\* same time; the clock runs until the loop has woken once.
InitFair ==
    /\ InitCommon
    /\ InitNoSite
    /\ callsLeft = 0
    /\ dbFeed = [u \in WebURLs |-> FeedRow(FeedNumber(u), ZeroTime)]

NextFair ==
    \/ LoopCycle
    \/ LoopWake
    \/ \E r \in Running : TaskStepTracked(r, ParseURL(r.url))
    \/ SaverStep
    \/ Tick(BootTime + SleepInterval)

SpecFair == InitFair /\ [][NextFair]_vars /\ Fairness

\* A step of the refresh loop, of a Reconcile goroutine or of the saver.
GoroutineStep ==
    \/ LoopCycle
    \/ LoopWake
    \/ \E r \in Running : TaskStepTracked(r, ParseURL(r.url))
    \/ SaverStep

\* The same program under a fair scheduler: while some goroutine can run,
\* one of them does, and a parser call returns.
SpecLive == InitFair /\ [][NextFair]_vars /\ WF_vars(GoroutineStep)

\* The first refresh cycle with concurrent web requests
NextWeb ==
    \/ LoopCycle
    \/ \E r \in Running : TaskStep(r, ParseURL(r.url))
    \/ SaverStep
    \/ \E c \in CallerIds : CallerStep(c)
    \/ MapRaceFatal

SpecWeb == InitWeb /\ [][NextWeb]_vars

\* The same with the web requests all about one of the two feeds
CallerStepOn(c, urls) ==
    \/ \E url \in urls : CallAddFeedStub(c, url)
    \/ \E url \in urls : CallRemoveFeed(c, url)
    \/ \E url \in urls : CallFetch(c, url)
    \/ CallLock(c)
    \/ CallAddWrite(c)
    \/ CallRemoveWrite(c)
    \/ CallFetchWrite(c)

NextDocs ==
    \/ LoopCycle
    \/ \E r \in Running : TaskStep(r, ParseURL(r.url))
    \/ SaverStep
    \/ \E c \in CallerIds : CallerStepOn(c, {"u1"})

SpecDocs == InitWeb /\ [][NextDocs]_vars

\* The first refresh cycle over many feeds whose fetches all fail
NextLimiter ==
    \/ LoopCycle
    \/ \E r \in Running : TaskStepFailing(r)

SpecLimiter == InitLimiter /\ [][NextLimiter]_vars

\* One feed with one subscriber; requests to site.go during the first
\* refresh cycle
InitSite ==
    /\ InitCommon
    /\ callsLeft = MaxCalls
    /\ dbFeed = [u \in {"u1"} |-> FeedRow(FeedNumber(u), ZeroTime)]
    /\ dbSubscribe = {[user_id |-> 1, feed_id |-> FeedNumber("u1")]}
    /\ dbPostRead = {}
    /\ handlers = [h \in HandlerIds |-> IdleHandler]
    /\ unit = NoUnit

\* the feed users subscribe to is new, the one they leave is the seeded one
SubscribeURLs == {"u2"}
UnsubscribeURLs == {"u1"}

\* what the parser answers while requests are served
SiteAnswers(url) ==
    {a \in ParseURL(url) : a.err # "" \/ a.feed.Items = RawFeedAB.Items}

HandlerStep(h) ==
    \/ \E u \in SubscribeURLs : HandleSubscribe(h, u)
    \/ HandleGetFeedID(h)
    \/ HandleInsert(h)
    \/ HandleHasFeed(h)
    \/ HandleAddWrite(h)
    \/ HandleFetch(h, SiteAnswers(handlers[h].url))
    \/ HandleFetchWrite(h)
    \/ \E u \in UnsubscribeURLs : HandleUnsubscribe(h, u)
    \/ HandleDeleteOrphanFeeds(h)
    \/ HandleRemoveFeed(h)
    \/ HandleRemoveWrite(h)
    \/ \E u \in WebURLs : HandleFeedDetails(h, u)
    \/ HandleReturn(h)

NextSite ==
    \/ LoopCycle
    \/ \E r \in Running : TaskStep(r, SiteAnswers(r.url))
    \/ SaverStep
    \/ \E h \in HandlerIds : HandlerStep(h)

SpecSite == InitSite /\ [][NextSite]_vars

\* Calls of AddFeedStub, RemoveFeed and Fetch one after the other on a
\* Reaper made from an empty database, the refresh loop idle
InitCrud ==
    /\ InitCommon
    /\ callsLeft = MaxCalls + 1
    /\ dbFeed = [u \in {} |-> FeedRow(0, ZeroTime)]
    /\ handlers = [h \in HandlerIds |-> IdleHandler]
    /\ dbSubscribe = {}
    /\ dbPostRead = {}
    /\ unit = [fn |-> "New", arg |-> "",
               out |-> [before |-> feeds, added |-> {}]]

NextCrud ==
    \/ \E url \in WebURLs : UnitAddFeedStub(url)
    \/ \E url \in WebURLs : UnitRemoveFeed(url)
    \/ \E url \in WebURLs : UnitFetch(url)
    \/ Tick(MaxTime)

SpecCrud == InitCrud /\ [][NextCrud]_vars

\* Requests about a feed that storage does not hold at startup, the other
\* feed having been refreshed an hour before; the clock runs until the loop
\* has woken once.
InitStub ==
    /\ InitCommon
    /\ InitNoSite
    /\ callsLeft = MaxCalls
    /\ dbFeed = [u \in {"u2"} |-> FeedRow(FeedNumber(u), BootTime - 1)]

NextStub ==
    \/ LoopCycle
    \/ LoopWake
    \/ \E r \in Running : TaskStep(r, ParseURL(r.url))
    \/ SaverStep
    \/ \E c \in CallerIds : CallerStepOn(c, {"u1"})
    \/ Tick(BootTime + SleepInterval)

SpecStub == InitStub /\ [][NextStub]_vars

\* Calls of AddFeedStub and Fetch one after the other, storage holding the
\* rows of both feeds
InitFetch ==
    /\ InitCommon
    /\ callsLeft = MaxCalls + 1
    /\ dbFeed = [u \in WebURLs |-> FeedRow(FeedNumber(u), BootTime - 1)]
    /\ handlers = [h \in HandlerIds |-> IdleHandler]
    /\ dbSubscribe = {}
    /\ dbPostRead = {}
    /\ unit = [fn |-> "New", arg |-> "",
               out |-> [before |-> feeds, added |-> {}]]

NextFetch ==
    \/ \E url \in WebURLs : UnitAddFeedStub(url)
    \/ \E url \in WebURLs : UnitFetch(url)
    \/ Tick(MaxTime)

SpecFetch == InitFetch /\ [][NextFetch]_vars

\* Calls of SavePost one after the other on a database with two feeds and
\* no post
PostTitles == {<<"A">>, <<"A", "again">>}
PostLinks == {LinkA, LinkB}
PostTimes == {1, 2}

InitSavePost ==
    /\ InitCommon
    /\ callsLeft = 0
    /\ dbFeed = [u \in WebURLs |-> FeedRow(FeedNumber(u), ZeroTime)]
    /\ handlers = [h \in HandlerIds |-> IdleHandler]
    /\ dbSubscribe = {}
    /\ dbPostRead = {}
    /\ unit = [fn |-> "Open", arg |-> <<>>, out |-> [before |-> dbPost]]

NextSavePost ==
    \E feedUrl \in WebURLs, title \in PostTitles, url \in PostLinks,
       publishedDatetime \in PostTimes :
        UnitSavePost(feedUrl, title, url, publishedDatetime)

SpecSavePost == InitSavePost /\ [][NextSavePost]_vars

\* Read status on its own: two users, the first subscribed to the first
\* feed; one link is a post of both feeds, one of the first feed only.
ReadUsers == {1, 2}

InitReadStatus ==
    /\ InitCommon
    /\ callsLeft = 0
    /\ dbFeed = [u \in WebURLs |-> FeedRow(FeedNumber(u), ZeroTime)]
    /\ handlers = [h \in HandlerIds |-> IdleHandler]
    /\ dbSubscribe = {[user_id |-> 1, feed_id |-> FeedNumber("u1")]}
    /\ dbPostRead = {}
    /\ unit = [fn |-> "Open", arg |-> <<>>,
               out |-> [before |-> {}, read |-> FALSE]]

\* the posts are stored first, as the test does
NextReadStatus ==
    \/ /\ unit.fn \in {"Open", "SavePost"}
       /\ \E feedUrl \in WebURLs, url \in {LinkA, LinkB} :
              UnitSavePost(feedUrl, "t1", url, 1)
    \/ \E userId \in ReadUsers, postUrl \in {LinkA, LinkB}, read \in BOOLEAN :
           UnitSetReadStatus(userId, postUrl, read)
    \/ \E userId \in ReadUsers, postUrl \in {LinkA, LinkB} :
           UnitToggleReadStatus(userId, postUrl)
    \/ \E userId \in ReadUsers, postUrl \in {LinkA, LinkB} :
           UnitGetReadStatus(userId, postUrl)

SpecReadStatus == InitReadStatus /\ [][NextReadStatus]_vars

\* sanitizeFeedItems applied to every document of MaxLen items at most
SanitizeItems ==
    {RawA, RawADup, RawB, RawBPadded, RawRelative, RawEmpty, RawBlank,
     RawInner}

RawDocuments ==
    {[FeedLink |-> "u1", Items |-> items, Published |-> <<"RFC822", 2>>,
      PublishedParsed |-> <<>>] :
        items \in UNION {[1..n -> SanitizeItems] : n \in 0..MaxLen}}

InitSanitize ==
    /\ InitCommon
    /\ callsLeft = 0
    /\ dbFeed = [u \in {} |-> FeedRow(0, ZeroTime)]
    /\ handlers = [h \in HandlerIds |-> IdleHandler]
    /\ dbSubscribe = {}
    /\ dbPostRead = {}
    /\ \E feed \in RawDocuments :
          unit = [fn |-> "ParseURL", arg |-> feed, out |-> feed]

NextSanitize == UnitSanitize

SpecSanitize == InitSanitize /\ [][NextSanitize]_vars

----------------------------------------------------------------------------
\* Properties of the refresh loop

\* C1: at every moment at most five Reconcile goroutines of the refresh
\* loop have been started and have not yet finished, however many feeds
\* are stale.
AtMostFiveReconciles == BagCardinality(tasks) <= SemaphoreCap

\* Five goroutines are running and the scan holds a sixth stale feed,
\* blocked on the semaphore.
FiveRunningOneBlocked ==
    /\ BagCardinality(tasks) = SemaphoreCap
    /\ loop.pc = "acquire"
    /\ semaphore = SemaphoreCap

\* C2: a cycle ends (the loop goes to sleep, and later begins the next
\* scan) only when every goroutine it started has finished.
CycleEndsAfterAllTasks ==
    loop.pc \in {"sleep", "begin", "getURLs", "seedLock", "seed"}
        => /\ tasks = EmptyBag
           /\ wg = 0

\* A cycle that started goroutines for both feeds has ended.
CycleOfTwoEnded ==
    /\ loop.pc = "sleep"
    /\ tasks = EmptyBag
    /\ \A u \in WebURLs : u \in DOMAIN attempt /\ attempt[u].time >= loop.start

\* The scan has evaluated line 246 for loop.key and recorded the LastFetched
\* it read (loop.lf) and the outcome (loop.stale).
Decided == loop.key # "" /\ loop.pc \in {"acquire", "range"}

\* C3 as stated: an entry is dispatched iff start >= LastFetched + TTL, so
\* an entry fetched exactly TTL before the scan is dispatched.
DispatchedIffAtLeastTTL ==
    Decided => (loop.stale <=> loop.start >= loop.lf + timeToBecomeStale)

\* C3: an entry is dispatched iff the scan starts strictly later than
\* LastFetched + TTL; an entry fetched exactly TTL before the scan is not
\* dispatched, and neither is a younger one.
DispatchedIffOlderThanTTL ==
    /\ Decided => (loop.stale <=> loop.start > loop.lf + timeToBecomeStale)
    /\ loop.pc = "acquire" => loop.stale
    /\ (Decided /\ ~loop.stale) => loop.pc = "range"

\* The scan met an entry fetched exactly TTL before its start and passed
\* it over.
BoundaryEntryPassedOver ==
    /\ Decided
    /\ loop.start = loop.lf + timeToBecomeStale
    /\ ~loop.stale
    /\ loop.pc = "range"

----------------------------------------------------------------------------
\* Properties of one Reconcile (updateFeedAndSaveNewItemsToDb)

\* The goroutine has sent everything it had to send after a fetch that
\* succeeded.
DoneSending(r) == r.pc \in {"finish", "exit"} /\ r.result = "fetched"

\* C4: after a successful fetch the requests handed to the saver are exactly
\* the items of the sanitized fresh document whose link is not a link of the
\* document the entry held before, each once.
SendsExactlyUnknownItems ==
    \A r \in Running :
        DoneSending(r) =>
            LET fresh == r.newF.Items
                known == Links(r.entry)
            IN  /\ \A i \in 1..Len(fresh) :
                       fresh[i].Link \notin known
                           <=> \E j \in 1..Len(r.sent) :
                                   r.sent[j] = PostSaveRequest(r.url, fresh[i])
                /\ \A j \in 1..Len(r.sent) :
                       \E i \in 1..Len(fresh) :
                           /\ r.sent[j] = PostSaveRequest(r.url, fresh[i])
                           /\ fresh[i].Link \notin known
                /\ \A j, k \in 1..Len(r.sent) :
                       r.sent[j].Link = r.sent[k].Link => j = k

\* A fetch brought one item the entry already had and one it had not, and
\* only the latter was sent.
OnlyTheUnknownItemSent ==
    \E r \in Running :
        /\ DoneSending(r)
        /\ Links(r.entry) = {LinkA, LinkB}
        /\ Links(r.newF) = {LinkB, LinkC}
        /\ Len(r.sent) = 1
        /\ r.sent[1].Link = LinkC

\* The goroutine has returned after a fetch that failed.
FetchFailed(r) == r.pc = "exit" /\ r.result \in FetchErrors

\* C5: when the fetch fails, the error text is stored as the feed's fetch
\* error, the entry keeps the document it had and nothing is sent to the
\* saver.
FailedFetchKeepsDocument ==
    \A r \in Running :
        FetchFailed(r) =>
            /\ r.url \in DOMAIN dbFeed
            /\ dbFeed[r.url].fetch_error = r.result
            /\ r.url \in DOMAIN feeds
            /\ feeds[r.url].Feed = r.entry
            /\ r.sent = <<>>
            /\ r.toSend = <<>>

\* A fetch failed for an entry that held a fetched document with items.
FailedFetchOfKnownFeed ==
    \E r \in Running :
        /\ FetchFailed(r)
        /\ Links(r.entry) = {LinkA, LinkB}
        /\ feeds[r.url].Feed = r.entry
        /\ dbFeed[r.url].fetch_error = r.result

\* C6: while the parser is called, and after it failed, the entry's
\* LastFetched and the stored last_refreshed are the time of this attempt;
\* a feed whose latest attempt failed is dispatched only by a scan that
\* starts at least TTL after that attempt.
AttemptTimeRecordedFirst ==
    /\ \A r \in Running :
           (r.pc = "fetch" \/ FetchFailed(r)) =>
               /\ r.url \in DOMAIN feeds
               /\ feeds[r.url].LastFetched = r.fetchTime
               /\ r.url \in DOMAIN dbFeed
               /\ dbFeed[r.url].last_refreshed = r.fetchTime
    /\ \A u \in DOMAIN attempt :
           (loop.pc = "acquire" /\ loop.key = u
                /\ attempt[u].result \in FetchErrors)
               => loop.start >= attempt[u].time + timeToBecomeStale

\* A later scan, started less than TTL after a failed attempt, passed the
\* failing feed over.
FailingFeedPassedOver ==
    /\ Decided
    /\ ~loop.stale
    /\ loop.key \in DOMAIN attempt
    /\ attempt[loop.key].result \in FetchErrors
    /\ loop.start > attempt[loop.key].time
    /\ loop.start < attempt[loop.key].time + timeToBecomeStale
    /\ loop.lf = attempt[loop.key].time

\* The post of feed url with this link is stored, or is the one the saver
\* is writing.
Saved(url, link) ==
    \/ \E p \in dbPost : p.feed_id = GetFeedID(dbFeed, url) /\ p.url = link
    \/ /\ saver.pc = "save"
       /\ saver.item[1].FeedLink = url
       /\ saver.item[1].Link = link

\* In the cycle that has just ended the fetch of x failed and that of y
\* succeeded.
FailedAndFetched(x, y) ==
    /\ loop.pc = "sleep"
    /\ x \in DOMAIN attempt /\ y \in DOMAIN attempt
    /\ attempt[x].time >= loop.start /\ attempt[y].time >= loop.start
    /\ attempt[x].result \in FetchErrors
    /\ attempt[y].result = "fetched"

----------------------------------------------------------------------------
\* Properties of the refresh loop under concurrent web requests

\* C8: no interleaving of AddFeedStub, RemoveFeed and Fetch calls with the
\* refresh loop stops the loop: a RemoveFeed that lands while the scan
\* iterates the entries, or between a Reconcile's presence check and its
\* locked write to the entry, does not end the process on a nil holder.
RemoveNeverStopsLoop == crashed # NilDeref

\* C9: when RemoveFeed(url) completes while a Reconcile of url is past its
\* presence check and has not yet written its document, the Reconcile does
\* not create the entry again: at its end no entry exists that it inserted.
ReconcileNeverRecreates ==
    \A r \in Running :
        r.pc \in {"send", "finish", "exit"}
            => ~(r.result = "recreated" /\ HasFeed(r.url))

\* The goroutine took its first step while the map held no entry for the
\* key it was started for.
AbsentAtStart(r) ==
    \/ r.result = "untracked"
    \/ r.pc = "panic" /\ r.fh = "nil" /\ ~HasFeed(r.key)

\* C10: a Reconcile whose url is absent from the map at its start returns
\* without effect: no parser call, no write to storage, nothing sent to the
\* saver, the map unchanged.
AbsentAtStartAborts ==
    \A r \in Running :
        AbsentAtStart(r) =>
            /\ r.pc = "exit"
            /\ r.fetchTime = ZeroTime
            /\ r.sent = <<>>
            /\ r.toSend = <<>>

----------------------------------------------------------------------------
\* Properties of the map and storage under requests to site.go

\* No handler, no goroutine a handler started and no Reconcile is running.
Quiescent ==
    /\ crashed = NoCrash
    /\ tasks = EmptyBag
    /\ \A h \in HandlerIds : handlers[h].pc = "idle"

\* C11: at every quiescent state, whatever the interleaving of requests that
\* subscribe, requests that unsubscribe and clean up orphans, and scheduled
\* Reconciles, every url in the map has a row in table feed.
RegistryWithinStorage ==
    Quiescent => \A u \in DOMAIN feeds : u \in DOMAIN dbFeed

\* The row of url was deleted as an orphan and every RemoveFeed that cleanup
\* owed has been made.  (Nobody subscribes to a url of UnsubscribeURLs.)
OrphanCleanupDone(url) ==
    /\ url \notin DOMAIN dbFeed
    /\ \A h \in HandlerIds :
           handlers[h].pc \in {"remove", "removeWrite"}
               => url \notin handlers[h].orphans

\* C12: once the last subscriber of a feed has unsubscribed and orphan
\* cleanup has run (DeleteOrphanFeeds, then RemoveFeed for each url it
\* returned), the feed is absent from the map, so that no later refresh
\* cycle dispatches a Reconcile for it.
OrphanStaysOutOfRegistry ==
    \A url \in UnsubscribeURLs : OrphanCleanupDone(url) => ~HasFeed(url)

\* C14: AddFeedStub is safe under concurrency: whatever the interleaving of
\* AddFeedStub(url) calls with each other and with Fetch(url), an insertion
\* that takes effect when the entry exists changes nothing, so a fetched
\* document and its LastFetched are never replaced by an empty stub with a
\* forced-stale time.
StubNeverReplacesDocument ==
    [][\A h \in HandlerIds :
          (/\ handlers[h].pc = "addWrite"
           /\ handlers'[h].pc # "addWrite"
           /\ HasFeed(handlers[h].url)
           /\ feeds[handlers[h].url].Feed.Items # <<>>)
              => feeds'[handlers[h].url] = feeds[handlers[h].url]]_vars


\* C15: GetFeed(url) for a url that is absent from the map gives its caller
\* a not-found result: no handler that asks for the details of a feed fails
\* in the call.
GetFeedOfAbsentReturns ==
    \A h \in HandlerIds :
        handlers[h].op = "feedDetails" => handlers[h].pc # "panic"

\* SavePost has been executed for the request, or for one with its feed and
\* link.
Written(req) ==
    \E p \in dbPost :
        p.feed_id = GetFeedID(dbFeed, req.FeedLink) /\ p.url = req.Link

\* The requests a goroutine makes of its fresh document, in document order.
RequestsInDocumentOrder(r) ==
    LET items == NewItems(r.newF, Links(r.entry))
    IN  [i \in 1..Len(items) |-> PostSaveRequest(r.url, items[i])]

\* C16: the saver writes the requests one at a time in the order they were
\* handed over: it holds at most one request, the requests a Reconcile has
\* handed over are the first ones of its sanitized document in document
\* order, and all of them but the last have been written, the last being
\* written or the one the saver holds.
SavedInEnqueueOrder ==
    /\ Len(saver.item) <= 1
    /\ \A r \in Running :
          /\ Len(r.sent) <= Len(RequestsInDocumentOrder(r))
          /\ \A j \in 1..Len(r.sent) :
                /\ r.sent[j] = RequestsInDocumentOrder(r)[j]
                /\ j < Len(r.sent) => Written(r.sent[j])
                /\ j = Len(r.sent) =>
                      Written(r.sent[j]) \/ saver.item = <<r.sent[j]>>

\* The saver holds the second request of a Reconcile, not yet written, and
\* has written the first.
SecondHeldFirstWritten ==
    \E r \in Running :
        /\ Len(r.sent) = 2
        /\ r.sent[1].Link # r.sent[2].Link
        /\ saver.item = <<r.sent[2]>>
        /\ Written(r.sent[1])
        /\ ~Written(r.sent[2])

\* A goroutine is blocked in the send of its request for the item of this
\* link.
Sending(url, link) ==
    \E r \in Running :
        r.pc = "send" /\ r.url = url /\ Head(r.toSend).Link = link

\* Storage has one row at most for a feed and a link.
OneRowPerLink ==
    \A p, q \in dbPost : p.feed_id = q.feed_id /\ p.url = q.url => p = q

\* C17: under fair scheduling every request a Reconcile tries to hand over
\* is in the end received by the saver and written, storage never holds two
\* rows for it, and the saver comes back to its select again and again,
\* whether or not a request is waiting.
EveryRequestWrittenOnce ==
    /\ \A url \in WebURLs : \A link \in {LinkA, LinkB, LinkC} :
          Sending(url, link)
              ~> Written([FeedLink |-> url, Link |-> link])
    /\ []OneRowPerLink
    /\ []<>(saver.pc = "select")
    /\ [](crashed = NoCrash)

\* A goroutine is blocked in its send while the saver is writing the
\* request of another one.
SenderWaitsForSaver ==
    \E r \in Running :
        /\ r.pc = "send"
        /\ saver.pc = "save"
        /\ saver.item[1].FeedLink # r.url
        /\ ~Written(PostSaveRequest(r.url, Head(r.toSend)))

\* C21: no document held in the map, be it a stub or a document installed by
\* a Reconcile or by Fetch, has two items with the same non-empty link.
DocumentLinksDistinct ==
    \A u \in DOMAIN feeds :
        LET items == feeds[u].Feed.Items
        IN  \A i, j \in 1..Len(items) :
                items[i].Link # <<>> /\ items[i].Link = items[j].Link
                    => i = j

\* A Reconcile and a call of Fetch have each installed the document whose
\* raw form had the same link twice.
DeduplicatedDocumentsInstalled ==
    /\ \E r \in Running :
          /\ r.result = "fetched"
          /\ r.pc = "exit"
          /\ HasFeed(r.url)
          /\ feeds[r.url].Feed = r.newF
          /\ Len(r.newF.Items) = 2
          /\ Links(r.newF) = {LinkA, LinkB}
    /\ \E u \in DOMAIN feeds :
          /\ \A r \in Running : r.url # u
          /\ Len(feeds[u].Feed.Items) = 2
          /\ Links(feeds[u].Feed) = {LinkA, LinkB}

\* C22: the document held under a key of the map has that key as its
\* FeedLink, whatever feed link the parser gave.
FeedLinkIsKey ==
    \A u \in DOMAIN feeds : feeds[u].Feed.FeedLink = u

\* The parser gave the document of another address to a Reconcile and to a
\* call of Fetch, and both documents were installed.
RedirectedDocumentsInstalled ==
    /\ \E r \in Running :
          /\ r.result = "fetched"
          /\ r.pc = "exit"
          /\ HasFeed(r.url)
          /\ feeds[r.url].Feed = r.newF
          /\ Links(r.newF) = {LinkB, LinkC}
    /\ \E u \in DOMAIN feeds :
          /\ \A r \in Running : r.url # u
          /\ Links(feeds[u].Feed) = {LinkB, LinkC}

\* C23: once the parser call of a Reconcile has succeeded, and for as long
\* as that attempt is the latest one of the feed, the stored fetch error of
\* the feed is empty.
SuccessClearsFetchError ==
    /\ \A r \in Running :
          r.result = "fetched" =>
              r.url \in DOMAIN dbFeed /\ dbFeed[r.url].fetch_error = ""
    /\ \A u \in DOMAIN attempt :
          attempt[u].result = "fetched" =>
              u \in DOMAIN dbFeed /\ dbFeed[u].fetch_error = ""

\* A fetch has succeeded for a feed whose earlier attempt had left its
\* error in storage.
SucceededAfterFailure ==
    \E r \in Running :
        /\ r.result = "fetched"
        /\ r.errBefore \in FetchErrors
        /\ dbFeed[r.url].fetch_error = ""

\* C24: when start() has filled the map it holds one stub for every feed of
\* storage, with the persisted last-refresh time as its LastFetched (the zero
\* time when none is stored); and a feed whose persisted time is less than
\* TTL before the first scan gets no goroutine in the first cycle: its entry
\* and its row keep the persisted time.
SeededWithPersistedTimes ==
    /\ loop.pc = "begin" =>
          feeds = [u \in DOMAIN unit.arg |->
                      FeedHolder(StubFeed(u), unit.arg[u].last_refreshed)]
    /\ \A u \in DOMAIN unit.arg :
          (/\ loop.pc \notin {"getURLs", "seedLock", "seed", "begin"}
           /\ unit.arg[u].last_refreshed + timeToBecomeStale > loop.start)
              => /\ \A r \in Running : r.key # u
                 /\ u \notin DOMAIN attempt
                 /\ feeds[u].LastFetched = unit.arg[u].last_refreshed
                 /\ dbFeed[u].last_refreshed = unit.arg[u].last_refreshed

\* The first cycle has ended: the feed refreshed an hour before the restart
\* was passed over and the feed never refreshed was fetched.
FreshFeedPassedOverAfterRestart ==
    /\ loop.pc = "sleep"
    /\ unit.arg["u2"].last_refreshed = BootTime - 1
    /\ "u2" \notin DOMAIN attempt
    /\ feeds["u2"].LastFetched = BootTime - 1
    /\ "u1" \in DOMAIN attempt
    /\ attempt["u1"].time = loop.start

\* C25: when the parser call of Fetch(url) fails, Fetch returns that error
\* and leaves the map, with the entry of url, its document and its
\* LastFetched, and the rows of storage as they were.
FailedFetchChangesNothing ==
    (unit.fn = "Fetch" /\ unit.out.answer.err # "") =>
        /\ unit.out.err = unit.out.answer.err
        /\ feeds = unit.out.before
        /\ <<dbFeed, dbPost>> = unit.out.db

\* Fetch has failed for a feed whose entry holds a document fetched earlier.
FailedFetchOfFetchedEntry ==
    /\ unit.fn = "Fetch"
    /\ unit.out.err \in FetchErrors
    /\ HasFeed(unit.arg)
    /\ feeds[unit.arg].Feed.Items # <<>>
    /\ feeds[unit.arg].LastFetched < now
    /\ dbFeed[unit.arg].fetch_error = ""

\* C26: once a subscription to a feed unknown before has been served and
\* its first fetch has brought items, the entry of the feed holds these items
\* and each of them is a post of the feed in storage.
FirstFetchItemsStored ==
    \A u \in SubscribeURLs :
        (/\ Quiescent
         /\ HasFeed(u)
         /\ u \in DOMAIN dbFeed
         /\ feeds[u].Feed.Items # <<>>)
            => \A i \in 1..Len(feeds[u].Feed.Items) :
                   \E p \in dbPost :
                       /\ p.feed_id = dbFeed[u].id
                       /\ p.url = feeds[u].Feed.Items[i].Link

\* C27: the scheduler has at most one goroutine running per feed: no two
\* goroutines dispatched by scans, of one cycle or of different cycles, were
\* dispatched for the same key of the map.
OneReconcilePerFeed ==
    \A r1, r2 \in Running :
        /\ CopiesIn(r1, tasks) = 1
        /\ r1 # r2 => r1.key # r2.key

\* In a cycle after the first the goroutines of both feeds are running.
BothFeedsRunningInLaterCycle ==
    /\ \E r1, r2 \in Running : r1.key = "u1" /\ r2.key = "u2"
    /\ "u1" \in DOMAIN attempt
    /\ attempt["u1"].time < loop.start

\* C28: no two mutations of the registry execute at the same time: a
\* goroutine writes the LastFetched of its entry at line 234 only when no
\* other goroutine is inside a mutation it makes under the lock.
MutationsSerialized ==
    [][\A r \in Running :
          (/\ r.pc = "finish"
           /\ r.fh = "attached"
           /\ tasks' = Become(r, [r EXCEPT !.pc = "exit"]))
              => ~MapWriteInProgress /\ mutex = MutexCap]_vars

\* C29: no read of the map overlaps a write of the map by another goroutine:
\* while the scan ranges over the map and reads its entries, no request and
\* no Reconcile is inside a write of the map.
ScanNeverOverlapsMapWrite ==
    ~(loop.pc \in ScanPcs /\ MapWriteInProgress)

\* The latest attempt of the feed was made in a scan started at this time
\* or later and has ended.
AttemptedSince(u, t) ==
    u \in DOMAIN attempt /\ attempt[u].time >= t /\ attempt[u].result # ""

\* C30: under fair scheduling a feed the scan finds stale is reconciled in
\* that cycle, no cycle ending with an entry stale at its start; every item
\* of a fetched document that the entry did not hold is in the end written
\* to storage; and a feed of storage with no persisted refresh time is
\* reconciled in the first cycle.
StaleFeedsReconciledAndStored ==
    /\ \A u \in WebURLs :
          (loop.pc = "acquire" /\ loop.key = u)
              ~> AttemptedSince(u, loop.start)
    /\ [](loop.pc = "sleep" =>
             \A u \in DOMAIN feeds :
                 feeds[u].LastFetched + timeToBecomeStale >= loop.start)
    /\ \A u \in WebURLs : \A link \in {LinkA, LinkB, LinkC} :
          (\E r \in Running :
               /\ r.url = u
               /\ r.result = "fetched"
               /\ link \in Links(r.newF) \ r.prev)
              ~> Written([FeedLink |-> u, Link |-> link])
    /\ \A u \in WebURLs : <>AttemptedSince(u, BootTime)

\* The first cycle has ended and the posts of a feed that had no persisted
\* refresh time are in storage.
PostsStoredAfterFirstCycle ==
    /\ loop.pc = "sleep"
    /\ AttemptedSince("u1", loop.start)
    /\ attempt["u1"].result = "fetched"
    /\ Links(attempt["u1"].feed) = {LinkA, LinkB}
    /\ \A link \in {LinkA, LinkB} :
          Written([FeedLink |-> "u1", Link |-> link])
    /\ \A p \in dbPost : p.feed_id = GetFeedID(dbFeed, "u1")

----------------------------------------------------------------------------
\* Properties of functions called on their own

\* C13: with calls made one after the other: after AddFeedStub(url)
\* HasFeed(url) is true; HasFeed is false for a url never added; after
\* RemoveFeed(url) HasFeed(url) is false; RemoveFeed of an absent url
\* changes nothing; AddFeedStub of a present url leaves its document and
\* its LastFetched as they were.
RegistryCrud ==
    /\ \A url \in AllURLs : url \notin Added => ~HasFeed(url)
    /\ unit.fn = "AddFeedStub" =>
           /\ HasFeed(unit.arg)
           /\ unit.arg \in DOMAIN unit.out.before
                  => feeds = unit.out.before
    /\ unit.fn = "RemoveFeed" =>
           /\ ~HasFeed(unit.arg)
           /\ unit.arg \notin DOMAIN unit.out.before
                  => feeds = unit.out.before

\* AddFeedStub was called for a url whose entry held a fetched document
\* with an older LastFetched, and the entry is as it was.
AddOnFetchedEntry ==
    /\ unit.fn = "AddFeedStub"
    /\ unit.arg \in DOMAIN unit.out.before
    /\ unit.out.before[unit.arg].Feed.Items # <<>>
    /\ unit.out.before[unit.arg].LastFetched < now
    /\ feeds[unit.arg] = unit.out.before[unit.arg]

\* The rows storage holds for a feed and a link.
RowsOf(posts, feedUrl, url) ==
    {p \in posts : p.feed_id = GetFeedID(dbFeed, feedUrl) /\ p.url = url}

\* The requests a goroutine has handed over and those it still has to.
RequestsOf(r) ==
    r.sent \o [i \in 1..Len(r.toSend) |->
                  PostSaveRequest(r.newF.FeedLink, r.toSend[i])]

\* C32: an item with a valid link whose published string is in none of the
\* known formats is kept with the zero time as its published time, the
\* other items of its document keeping the times parsed; when its link is
\* new, a request is made for it that carries the zero time, and so does the
\* row written.
UnparsedDateKeptAsZeroTime ==
    /\ \A r \in Running :
          r.result = "fetched" =>
              /\ Links(r.newF) \in {{LinkA, LinkB}, {LinkB, LinkC}}
              /\ \A i \in 1..Len(r.newF.Items) :
                    LET item == r.newF.Items[i]
                    IN  /\ item.PublishedParsed # <<>>
                        /\ item.Published[1] = "next tuesday"
                               => item.PublishedParsed = <<ZeroTime>>
                        /\ item.Link = LinkC
                               => item.Published[1] = "next tuesday"
                        /\ item.Link = LinkB
                               => item.PublishedParsed = <<2>>
              /\ \A j \in 1..Len(RequestsOf(r)) :
                    RequestsOf(r)[j].Link = LinkC
                        => RequestsOf(r)[j].Date = ZeroTime
              /\ (r.pc \in {"send", "finish", "exit"}
                    /\ LinkC \in Links(r.newF) \ r.prev)
                     => \E j \in 1..Len(RequestsOf(r)) :
                            RequestsOf(r)[j].Link = LinkC
    /\ \A p \in dbPost : p.url = LinkC => p.published_at = ZeroTime

\* The item with the unreadable date was written with the zero time, after
\* the item before it with the time parsed.
ZeroTimePostWritten ==
    \E p, q \in dbPost :
        /\ p.feed_id = q.feed_id
        /\ p.url = LinkC /\ p.published_at = ZeroTime
        /\ q.url = LinkB /\ q.published_at = 2

\* The entry is a stub that no Reconcile has got to. Where startup seeds no
\* entry for the url, it is a stub that AddFeedStub inserted.
NeverFetchedStub(u) ==
    /\ u \in DOMAIN feeds
    /\ feeds[u].Feed.Items = <<>>
    /\ u \notin DOMAIN attempt
    /\ u \notin DOMAIN dbFeed

\* line 340 read backwards: the time AddFeedStub inserted the stub
InsertedAt(u) == feeds[u].LastFetched + timeToBecomeStale

\* C33 as stated: a stub that AddFeedStub has inserted is stale at a scan
\* that begins at or after the insertion.
StubStaleAtScanBegin ==
    [][(loop.pc = "begin" /\ loop'.pc = "range") =>
           \A u \in DOMAIN feeds :
               NeverFetchedStub(u) =>
                   feeds[u].LastFetched + timeToBecomeStale < loop'.start]_vars

\* C33: a stub that AddFeedStub has inserted is stale at a scan that starts
\* later than the insertion, and only then; if the entry is still there and
\* no Reconcile has got to it, that scan dispatches a Reconcile for it.
StubStaleAtLaterScan ==
    /\ (Decided /\ NeverFetchedStub(loop.key)
               /\ feeds[loop.key].LastFetched = loop.lf)
           => /\ loop.stale <=> InsertedAt(loop.key) < loop.start
              /\ loop.stale => \/ loop.pc = "acquire"
                               \/ \E r \in Running : r.key = loop.key
    /\ loop.pc = "wait"
           => \A u \in DOMAIN feeds :
                  (NeverFetchedStub(u) /\ InsertedAt(u) < loop.start)
                      => \E r \in Running : r.key = u

\* A Reconcile has been dispatched for a stub that AddFeedStub inserted
\* before the scan started.
StubDispatched ==
    /\ NeverFetchedStub("u1")
    /\ InsertedAt("u1") >= BootTime
    /\ InsertedAt("u1") < loop.start
    /\ \E r \in Running : r.key = "u1" /\ r.pc = "start"

\* C34: a Reconcile that starts after a Fetch or an earlier Reconcile of its
\* url has ended takes as previously known links the links of the document
\* the map holds at that moment, and hands over no request for a link of
\* that document.
SnapshotIsRegistryDocument ==
    \A r \in Running :
        (r.pc \notin {"start", "panic"} /\ r.result # "untracked") =>
            /\ r.prev = Links(r.entry)
            /\ \A j \in 1..Len(RequestsOf(r)) :
                   RequestsOf(r)[j].Link \notin Links(r.entry)

\* C35: when a Fetch and a Reconcile of the same url overlap, every document
\* the map comes to hold under the url is the whole sanitized document of
\* one of the two (or a stub), the last write winning, and storage never
\* holds two rows for a feed and a link.
OverlapLastWriteWins ==
    /\ []OneRowPerLink
    /\ [][\A u \in DOMAIN feeds' :
             (u \notin DOMAIN feeds \/ feeds'[u].Feed # feeds[u].Feed) =>
                 \/ feeds'[u].Feed = StubFeed(u)
                 \/ \E c \in CallerIds :
                        /\ callers[c].pc = "fetchWrite"
                        /\ callers[c].url = u
                        /\ feeds'[u].Feed = callers[c].feed
                 \/ \E r \in Running :
                        /\ r.pc = "write211"
                        /\ r.url = u
                        /\ feeds'[u].Feed = r.newF]_vars

\* A Fetch installed its document while a Reconcile of the same url was
\* fetching; the Reconcile is about to write another document over it, and
\* will hand over a request for a link the two documents share.
ReconcileWritesOverFetch ==
    /\ "u1" \in DOMAIN feeds
    /\ feeds["u1"].Feed.Items # <<>>
    /\ \E r \in Running :
          /\ r.url = "u1"
          /\ r.fh = "detached"
          /\ r.entry.Items = <<>>
          /\ r.pc = "write211"
          /\ feeds["u1"].Feed # r.newF
          /\ LinkB \in Links(r.newF) \cap Links(feeds["u1"].Feed)
          /\ LinkB \notin r.prev

\* The entry holds a document and no Reconcile has got to it. Where startup
\* seeds no entry for the url, it is a document that Fetch installed.
FetchedEntry(u) ==
    /\ u \in DOMAIN feeds
    /\ feeds[u].Feed.Items # <<>>
    /\ u \notin DOMAIN attempt
    /\ u \notin DOMAIN dbFeed

\* The scan started after the entry was installed and less than the TTL
\* later.
StartedWithinTTL(u) ==
    /\ feeds[u].LastFetched < loop.start
    /\ loop.start < feeds[u].LastFetched + timeToBecomeStale

\* C36: a Fetch that succeeds installs its sanitized document under the url
\* with LastFetched the time of the write, whether or not the map had an
\* entry; the map then has the url, and a scan that starts less than the TTL
\* later finds the entry not stale and dispatches nothing for it.
FetchInstallsFreshEntry ==
    /\ [][\A c \in CallerIds :
             (callers[c].pc = "fetchWrite" /\ callers'[c].pc = "idle") =>
                 /\ callers[c].url \in DOMAIN feeds'
                 /\ feeds'[callers[c].url].Feed = callers[c].feed
                 /\ feeds'[callers[c].url].LastFetched = now
                 /\ \E raw \in RawFeeds :
                        callers[c].feed =
                            [raw EXCEPT !.FeedLink = callers[c].url,
                                        !.Items = SanitizeLoop(raw.Items, 1,
                                                               {}, <<>>)]]_vars
    /\ [][(loop.pc = "acquire" /\ loop'.pc = "range") =>
             ~(FetchedEntry(loop.key) /\ StartedWithinTTL(loop.key))]_vars
    /\ [](Decided /\ FetchedEntry(loop.key)
                  /\ feeds[loop.key].LastFetched = loop.lf
                  /\ StartedWithinTTL(loop.key)
             => ~loop.stale /\ loop.pc = "range")

\* A scan started an hour after the last request, a Fetch, has passed over
\* the entry that the Fetch installed.
FetchedEntryPassedOver ==
    /\ Decided
    /\ loop.key = "u1"
    /\ FetchedEntry("u1")
    /\ feeds["u1"].LastFetched = loop.lf
    /\ loop.start = loop.lf + 1
    /\ ~loop.stale
    /\ callsLeft = 0

\* The goroutines inside a critical section of the registry lock.
LockHolders ==
    (IF loop.pc = "seed" THEN 1 ELSE 0)
    + SumCopies(tasks, {r \in Running : r.pc = "stubWrite"})
    + Cardinality({c \in CallerIds :
                      callers[c].pc \in {"addWrite", "removeWrite",
                                         "fetchWrite"}})

\* A step of a goroutine that has started: the loop, a Reconcile, the saver
\* writing, a request past its first line.
StartedStep ==
    \/ LoopCycle
    \/ \E r \in Running : TaskStep(r, ParseURL(r.url))
    \/ SaverSave
    \/ \E c \in CallerIds :
          CallLock(c) \/ CallAddWrite(c) \/ CallRemoveWrite(c)
              \/ CallFetchWrite(c)

\* Every goroutine is where it waits for new work.
AtRest ==
    /\ loop.pc = "sleep"
    /\ tasks = EmptyBag
    /\ saver.pc = "select"
    /\ \A c \in CallerIds : callers[c].pc = "idle"

\* C37: while the process runs, no state is a deadlock. The lock is held by
\* the one goroutine that is between lock() and unlock(), never by one in a
\* parser call or in a send; unless all goroutines are at rest one of them
\* can step; and a goroutine that waits in a send holds a slot of the
\* semaphore and is served by the saver, at once or after the write the
\* saver is in.
NoDeadlock ==
    crashed = NoCrash =>
        /\ mutex + LockHolders = MutexCap
        /\ ~AtRest => ENABLED StartedStep
        /\ semaphore = SumCopies(tasks, Running)
        /\ \A r \in Running :
               r.pc = "send" =>
                   \/ saver.pc = "select" /\ ENABLED TaskSend(r)
                   \/ saver.pc = "save" /\ ENABLED SaverSave

\* A Reconcile waits in its send for the saver, which is writing, while a
\* request is inside its critical section and the loop is scanning.
SenderWaitsLockHeld ==
    /\ crashed = NoCrash
    /\ mutex = 0
    /\ saver.pc = "save"
    /\ loop.pc \in ScanPcs
    /\ \E r \in Running : r.pc = "send"

\* The requests for the items of the document the latest Reconcile of the
\* url fetched.
RequestsOfAttempt(u) ==
    {PostSaveRequest(u, attempt[u].feed.Items[i]) :
         i \in 1..Len(attempt[u].feed.Items)}

\* C38: when refreshAllFeeds has returned, no goroutine of the cycle is left
\* and none of its requests waits to be received: every item of a document
\* fetched is in storage, but for the one request at most that the saver
\* has received and is still writing.
NothingQueuedWhenCycleEnds ==
    loop.pc = "sleep" =>
        /\ tasks = EmptyBag
        /\ Len(saver.item) <= 1
        /\ \A u \in DOMAIN attempt :
               attempt[u].result = "fetched" =>
                   \A req \in RequestsOfAttempt(u) :
                       Written(req) \/ saver.item = <<req>>

\* refreshAllFeeds has returned while the saver is writing the last request
\* of the cycle, the one before it being in storage.
LastRequestStillBeingWritten ==
    /\ loop.pc = "sleep"
    /\ saver.pc = "save"
    /\ ~Written(saver.item[1])
    /\ \E p \in dbPost :
          /\ p.feed_id = GetFeedID(dbFeed, saver.item[1].FeedLink)
          /\ p.url # saver.item[1].Link

\* C39: the seeding step of start does not put an empty stub over an entry
\* that AddFeedStub or Fetch installed before it: the entry keeps its
\* document and its LastFetched.
SeedingKeepsInstalledEntries ==
    [][(loop.pc = "seed" /\ loop'.pc = "begin") =>
           \A u \in DOMAIN feeds : feeds'[u] = feeds[u]]_vars

\* C40: every post written to storage is written under the id of a feed row
\* that exists when it is written; a request for a feed whose row the
\* orphan cleanup has deleted creates no row.
PostsWrittenUnderExistingFeed ==
    [][\A p \in dbPost' \ dbPost :
           \E u \in DOMAIN dbFeed : dbFeed[u].id = p.feed_id]_vars

\* C31: a post with no read record is reported unread; after SetReadStatus
\* with b, GetReadStatus returns b; ToggleReadStatus inverts the status, and
\* a second toggle restores it.
ReadStatusSetGetToggle ==
    /\ unit.fn = "GetReadStatus"
           => /\ unit.out.read = GetReadStatus(dbPostRead, unit.arg[1],
                                               unit.arg[2])
              /\ ReadRows(dbPostRead, unit.arg[1], unit.arg[2]) = {}
                     => ~unit.out.read
    /\ unit.fn = "SetReadStatus"
           => GetReadStatus(dbPostRead, unit.arg[1], unit.arg[2])
                  = unit.arg[3]
    /\ unit.fn = "ToggleReadStatus"
           => /\ GetReadStatus(dbPostRead, unit.arg[1], unit.arg[2])
                     = ~unit.out.read
              /\ GetReadStatus(ToggleReadStatus(dbPostRead, unit.arg[1],
                                                unit.arg[2]),
                               unit.arg[1], unit.arg[2]) = unit.out.read
    /\ unit.fn \in {"GetReadStatus", "SetReadStatus", "ToggleReadStatus"}
           => /\ Cardinality(ReadRows(dbPostRead, unit.arg[1],
                                      unit.arg[2])) <= 1
              /\ \A r \in dbPostRead \ ReadRows(dbPostRead, unit.arg[1],
                                                unit.arg[2]) :
                     r \in unit.out.before

\* A status set to read was toggled back to unread.
ToggledBackToUnread ==
    /\ unit.fn = "ToggleReadStatus"
    /\ unit.out.read
    /\ [user_id |-> unit.arg[1], post_id |-> unit.arg[2],
        has_read |-> TRUE] \in unit.out.before
    /\ [user_id |-> unit.arg[1], post_id |-> unit.arg[2],
        has_read |-> FALSE] \in dbPostRead

\* C18: SavePost is idempotent per feed and link: after a call storage holds
\* exactly one row for the feed and the link; the same call again changes
\* nothing; and a call for a feed and a link that have a row, with whatever
\* title and time, leaves storage as it was.
SavePostIdempotent ==
    unit.fn = "SavePost" =>
        LET feedUrl == unit.arg[1]
            title == unit.arg[2]
            url == unit.arg[3]
            publishedDatetime == unit.arg[4]
            before == unit.out.before
        IN  /\ Cardinality(RowsOf(dbPost, feedUrl, url)) = 1
            /\ SavePost(dbFeed, dbPost, feedUrl, title, url,
                        publishedDatetime) = dbPost
            /\ RowsOf(before, feedUrl, url) # {} => dbPost = before
            /\ RowsOf(before, feedUrl, url) = {} =>
                  dbPost = before \cup
                      {[feed_id |-> GetFeedID(dbFeed, feedUrl),
                        title |-> title, url |-> url,
                        published_at |-> publishedDatetime]}
            /\ \A t \in PostTitles, d \in PostTimes :
                  SavePost(dbFeed, dbPost, feedUrl, t, url, d) = dbPost

\* SavePost was called for a feed and a link stored with another title and
\* another time, and the stored row is as it was.
SecondSaveOtherTitle ==
    /\ unit.fn = "SavePost"
    /\ \E p \in RowsOf(unit.out.before, unit.arg[1], unit.arg[3]) :
          /\ p.title # unit.arg[2]
          /\ p.published_at # unit.arg[4]
          /\ p \in dbPost

\* The link of an item as the sanitizer compares it.
Trimmed(item) == TrimSpace(item.Link)

\* The item passes the filter of lines 119-122.
Survives(item) ==
    /\ Trimmed(item) # <<>>
    /\ Head(Trimmed(item)) \in {"http://", "https://"}

\* The place of the first item of the raw document with this trimmed link.
FirstWith(items, link) ==
    CHOOSE i \in 1..Len(items) :
        /\ Trimmed(items[i]) = link
        /\ \A k \in 1..(i - 1) : Trimmed(items[k]) # link

\* C19: the sanitized document has, for every trimmed link that passes the
\* filter, exactly one item, made from the first item of the raw document
\* with that link; its items are in the order of those first items; and none
\* has an empty link.
SanitizerKeepsFirstOfEachLink ==
    unit.fn = "sanitizeFeedItems" =>
        LET raw == unit.arg.Items
            out == unit.out.Items
        IN  /\ \A i \in 1..Len(raw) :
                  Survives(raw[i]) =>
                      Cardinality({j \in 1..Len(out) :
                                      out[j].Link = Trimmed(raw[i])}) = 1
            /\ \A j \in 1..Len(out) :
                  /\ out[j].Link # <<>>
                  /\ \E i \in 1..Len(raw) :
                        Survives(raw[i]) /\ Trimmed(raw[i]) = out[j].Link
            /\ \A j \in 1..Len(out) :
                  LET first == raw[FirstWith(raw, out[j].Link)]
                  IN  /\ out[j].Title = CollapseWhitespace(first.Title)
                      /\ out[j].Published = first.Published
            /\ \A j, k \in 1..Len(out) :
                  j < k => FirstWith(raw, out[j].Link)
                              < FirstWith(raw, out[k].Link)

\* A raw document with the same link three times, differently padded and
\* with another item in between, was sanitized to two items.
ThreeOfOneLinkSanitized ==
    /\ unit.fn = "sanitizeFeedItems"
    /\ unit.arg.Items = <<RawBPadded, RawA, RawB, RawBPadded>>
    /\ Len(unit.out.Items) = 2
    /\ unit.out.Items[1].Title = <<"B", "sp", "2">>
    /\ unit.out.Items[2].Link = LinkA

\* C20: every item of the sanitized document has a link that, trimmed, starts
\* with http:// or https://, and no item of the raw document whose trimmed
\* link is empty or starts otherwise is in it.
SanitizerKeepsHttpLinksOnly ==
    unit.fn = "sanitizeFeedItems" =>
        LET raw == unit.arg.Items
            out == unit.out.Items
        IN  /\ \A j \in 1..Len(out) :
                  /\ TrimSpace(out[j].Link) # <<>>
                  /\ Head(TrimSpace(out[j].Link)) \in {"http://", "https://"}
            /\ \A i \in 1..Len(raw) :
                  ~Survives(raw[i]) =>
                      \A j \in 1..Len(out) :
                          /\ out[j].Link # Trimmed(raw[i])
                          /\ out[j].Link # raw[i].Link
            /\ Len(out) <= Cardinality({i \in 1..Len(raw) : Survives(raw[i])})

\* A protocol-relative link, an empty one, one of whitespace and one with
\* http:// in the middle were dropped, and the one item left was kept.
BadLinksDropped ==
    /\ unit.fn = "sanitizeFeedItems"
    /\ {unit.arg.Items[i] : i \in 1..Len(unit.arg.Items)}
           = {RawRelative, RawEmpty, RawBlank, RawInner}
    /\ unit.out.Items = <<>>

================================================================
